---------------------------- MODULE Spec2Model ----------------------------
(***************************************************************************)
(* wikiget: the download orchestration of src/src/wikiget/dl.py.           *)
(*                                                                         *)
(* process_download runs on the calling (main) thread.  In batch mode      *)
(* batch_download prepares every entry of dl_dict on the main thread       *)
(* (prep_download: get_dest, the is_file check, connect_to_site,           *)
(* query_api) and submits download(file, args) to a ThreadPoolExecutor of  *)
(* args.threads workers; in single mode download runs on the main thread.  *)
(* The blocking calls (connect, query, the streamed transfer, the hash     *)
(* re-read) are separate steps, so that the other threads interleave with  *)
(* them.                                                                   *)
(*                                                                         *)
(* The functions of src/src/wikiget/parse.py and validations.py that work  *)
(* on text (read_batch_file, get_dest with urlparse, valid_file and        *)
(* unquote) are modelled on token sequences and run in specifications of   *)
(* their own, SpecRead and SpecParse; SpecRaise and SpecInterrupt add an   *)
(* uncaught exception of a download and Ctrl-C to the download run.        *)
(* verify_hash (validations.py) and connect_to_site (client.py) run block  *)
(* by block and call by call in SpecHash and SpecConnect.                  *)
(***************************************************************************)
EXTENDS Integers, Sequences, FiniteSets, TLC

(* ---- bounds of the model ---- *)
MaxEntries == 2
MaxThreads == 2

(* ---- program constants ---- *)
DEFAULT_SITE == "commons.wikimedia.org"
DefaultThreads == 1

OTHER_SITE == "en.wikipedia.org"

\* The names a destination can resolve to (relative paths in the working directory).
Paths == {"Foo.jpg", "Bar.jpg"}

\* A raw download target, as urlparse and valid_file see it: the URL's netloc
\* ("" when the input is not a URL), whether the file regex matches with a
\* prefix group, and the regex's second group (the name).
Targets ==
    { [netloc |-> "",         valid |-> TRUE,  name |-> "Foo.jpg"],
      [netloc |-> "",         valid |-> TRUE,  name |-> "Bar.jpg"],
      [netloc |-> OTHER_SITE, valid |-> TRUE,  name |-> "Foo.jpg"],
      [netloc |-> "",         valid |-> FALSE, name |-> ""] }

\* The exceptions connect_to_site lets through to its caller.
ConnectErrors == {"ConnectionError", "HTTPError", "InvalidResponse", "LoginError"}

\* Terminal outcomes of one target.
PrepFailures == {"ParseFailure", "AlreadyExists", "AccessDenied"} \cup ConnectErrors
TransferFailures == {"NotFound", "WriteFailure", "VerifyFailure", "HashMismatch"}
Failures == PrepFailures \cup TransferFailures
Successes == {"Success", "DryRun"}

VARIABLES
    args,       \* the parsed command line: batch, force, dry_run, threads, site, output
    dl_dict,    \* batch mode: the batch file's entries; single mode: <<args.FILE>>
    fs,         \* the working directory: path -> "absent" | "file"
    pc,         \* position of the main thread
    line,       \* the entry the main thread is preparing
    file,       \* the File object prep_download is building (NoFile between entries)
    target,     \* per entry: the File object handed to download (NoFile if none)
    futures,    \* the futures list of batch_download: entries in submission order
    fut,        \* the future the collecting loop waits for
    errors,     \* the errors counter of batch_download
    exit_code,  \* the exit_code of process_download (the process's exit status)
    stage,      \* per entry: where its target is
    outcome,    \* per entry: its terminal outcome, "none" until it has one
    result,     \* per entry: the value download() returned, -1 until it returns
    calls,      \* per entry: how often prep_download, connect_to_site, query_api, download,
                \* the request for the file's bytes and verify_hash ran for it
    opened,     \* per entry: what its destination was when download opened it for writing
    sha1,       \* per entry: the digest verify_hash returned for its destination ("none" before)
    sites,      \* per host: how many Site sessions were established
    log,        \* the log records emitted so far: warnings, errors, and the INFO record
                \* that announces a batch entry
    input,      \* the argument of the pure function under evaluation (NoInput in a run of the program)
    output,     \* what that function has returned or built so far
    hashing     \* the verify_hash call under way: the offset of dl and the bytes fed to hasher

vars == <<args, dl_dict, fs, pc, line, file, target, futures, fut, errors, exit_code,
          stage, outcome, result, calls, opened, sha1, sites, log, input, output, hashing>>

Entries == DOMAIN dl_dict
Hosts == {DEFAULT_SITE, OTHER_SITE}
NoFile == [name |-> "", dest |-> "", site |-> "", imageinfo |-> FALSE]
NoCalls == [prep |-> 0, connect |-> 0, query |-> 0, download |-> 0, get |-> 0, verify |-> 0]
NoInput == <<>>
NoHashing == [offset |-> 0, hasher |-> <<>>]

(* ---- pure functions ---- *)

\* File.__init__: dest defaults to name, site to the default site.
File(name, dest, site) ==
    [name |-> name,
     dest |-> IF dest # "" THEN dest ELSE name,
     site |-> IF site # "" THEN site ELSE DEFAULT_SITE,
     imageinfo |-> FALSE]

\* get_dest with a site given with --site taken before the URL's.
get_dest_site_option_first(dl, a) ==
    LET site_name == IF dl.netloc # "" /\ ~a.site_given THEN dl.netloc ELSE a.site
    IN  IF dl.valid
        THEN [ok |-> TRUE,
              file |-> File(dl.name, IF a.output # "" THEN a.output ELSE dl.name, site_name)]
        ELSE [ok |-> FALSE, file |-> NoFile]

\* get_dest that leaves the --output option out of the File it builds.
get_dest_without_output(dl, a) ==
    LET site_name == IF dl.netloc # "" THEN dl.netloc ELSE a.site
    IN  IF dl.valid
        THEN [ok |-> TRUE, file |-> File(dl.name, "", site_name)]
        ELSE [ok |-> FALSE, file |-> NoFile]

\* get_dest: the site comes from the URL when there is one, else from --site;
\* a target the file regex rejects is a ParseError.
get_dest(dl, a) ==
    LET site_name == IF dl.netloc # "" THEN dl.netloc ELSE a.site
    IN  IF dl.valid
        THEN [ok |-> TRUE,
              file |-> File(dl.name, IF a.output # "" THEN a.output ELSE dl.name, site_name)]
        ELSE [ok |-> FALSE, file |-> NoFile]

\* Path.is_file on the destination.
is_file(p) == fs[p] = "file"

(* ---- initial states ---- *)

\* site_given tells whether args.site is a string read from --site or the
\* DEFAULT_SITE object itself, which is what `args.site is not DEFAULT_SITE`
\* looks at; a download run is modelled without --site.
ArgSpace ==
    [batch : BOOLEAN, force : BOOLEAN, dry_run : BOOLEAN,
     threads : 1..MaxThreads, site : {DEFAULT_SITE}, site_given : {FALSE}, output : {""}]

Init ==
    /\ args \in {a \in ArgSpace : a.batch \/ a.threads = DefaultThreads}
    /\ dl_dict \in UNION {[1..n -> Targets] : n \in 0..MaxEntries}
    /\ (~args.batch) => Len(dl_dict) = 1
    /\ fs \in [Paths -> {"absent", "file"}]
    /\ pc = "start"
    /\ line = 0
    /\ file = NoFile
    /\ target = [e \in Entries |-> NoFile]
    /\ futures = <<>>
    /\ fut = 1
    /\ errors = 0
    /\ exit_code = 0
    /\ stage = [e \in Entries |-> "pending"]
    /\ outcome = [e \in Entries |-> "none"]
    /\ result = [e \in Entries |-> -1]
    /\ calls = [e \in Entries |-> NoCalls]
    /\ opened = [e \in Entries |-> "no"]
    /\ sha1 = [e \in Entries |-> "none"]
    /\ sites = [h \in Hosts |-> 0]
    /\ log = {}
    /\ input = NoInput
    /\ output = NoInput
    /\ hashing = NoHashing

(* ---- the main thread: process_download, batch_download, prep_download ---- *)

\* The continue statement of batch_download's for loop (and the loop's end):
\* go on with the entry after i, or start collecting when there is none.
Continue(i) ==
    IF i < Len(dl_dict)
    THEN pc' = "get_dest" /\ line' = i + 1
    ELSE pc' = "collect" /\ line' = i

\* A log record: its level, its message (named by its first words), the
\* batch file line number in it (0 when it has none), the raw target string
\* in it (<<>> when it has none) and its "[...]" prefix ("" when it has none).
LogRecord(level, msg, line_num, raw, prefix) ==
    [level |-> level, msg |-> msg, line_num |-> line_num, target |-> raw, prefix |-> prefix]

\* The record batch_download logs when the batch file cannot be read.
ReadErrorRecord == LogRecord("ERROR", "File could not be read", 0, <<>>, "")

\* process_download whose failed read ends the process with sys.exit().
process_download_exit0 ==
    /\ pc = "start"
    /\ IF args.batch
       THEN \/ /\ pc' = "exited"
               /\ log' = log \cup {ReadErrorRecord}
               /\ exit_code' = exit_code
               /\ line' = line
            \/ /\ Continue(0)
               /\ UNCHANGED <<exit_code, log>>
       ELSE /\ pc' = "get_dest"
            /\ line' = 1
            /\ UNCHANGED <<exit_code, log>>
    /\ UNCHANGED <<args, dl_dict, fs, file, target, futures, fut, errors,
                   stage, outcome, result, calls, opened, sha1, sites, input, output, hashing>>

\* process_download starts: in batch mode read_batch_file either raises OSError,
\* which batch_download logs as an error before it ends the process with
\* sys.exit(1), or returns dl_dict and the loop starts; in single mode
\* prep_download(args.FILE) starts.
process_download ==
    /\ pc = "start"
    /\ IF args.batch
       THEN \/ /\ pc' = "exited"
               /\ log' = log \cup {ReadErrorRecord}
               /\ exit_code' = 1
               /\ line' = line
            \/ /\ Continue(0)
               /\ UNCHANGED <<exit_code, log>>
       ELSE /\ pc' = "get_dest"
            /\ line' = 1
            /\ UNCHANGED <<exit_code, log>>
    /\ UNCHANGED <<args, dl_dict, fs, file, target, futures, fut, errors,
                   stage, outcome, result, calls, opened, sha1, sites, input, output, hashing>>

\* The record that announces entry e at the start of its turn of the batch loop.
ProcessingLog(e) ==
    IF args.batch
    THEN {LogRecord("INFO", "Processing", e, <<dl_dict[e]>>, "")}
    ELSE {}

\* The error connect_to_site or query_api logs before it re-raises.
ClientErrorLog(oc) ==
    IF oc = "ConnectionError"
    THEN {LogRecord("ERROR", "Could not connect", 0, <<>>, "")}
    ELSE IF oc = "HTTPError"
    THEN {LogRecord("ERROR", "Could not find api.php",
                    0, <<>>, "")}
    ELSE IF oc \in {"InvalidResponse", "LoginError"}
    THEN {LogRecord("ERROR", oc, 0, <<>>, "")}
    ELSE IF oc = "AccessDenied"
    THEN {LogRecord("ERROR", "Access denied",
                    0, <<>>, "")}
    ELSE {}

\* PrepFailureLog with the line number and the raw target in the record of a
\* FileExistsError too.
PrepFailureLog_exists_with_line(e, oc) ==
    IF oc = "ParseFailure"
    THEN {LogRecord(IF args.batch THEN "WARNING" ELSE "ERROR", "Could not parse",
                    IF args.batch THEN e ELSE 0, <<dl_dict[e]>>, "")}
    ELSE IF oc = "AlreadyExists"
    THEN {LogRecord("WARNING", "File already exists",
                    IF args.batch THEN e ELSE 0, <<dl_dict[e]>>,
                    get_dest(dl_dict[e], args).file.dest)}
    ELSE IF oc \in ConnectErrors \cup {"AccessDenied"}
    THEN ClientErrorLog(oc) \cup
         (IF args.batch
          THEN {LogRecord("WARNING", "Unable to download",
                          e, <<dl_dict[e]>>, "")}
          ELSE {})
    ELSE {}

\* What the failure oc of entry e's prep_download leaves in the log: the
\* client's error, and the record of the except clause that catches it.  The
\* ParseError's message quotes the raw target; the FileExistsError's message
\* is prefixed with the destination.
PrepFailureLog(e, oc) ==
    IF oc = "ParseFailure"
    THEN {LogRecord(IF args.batch THEN "WARNING" ELSE "ERROR", "Could not parse",
                    IF args.batch THEN e ELSE 0, <<dl_dict[e]>>, "")}
    ELSE IF oc = "AlreadyExists"
    THEN {LogRecord("WARNING", "File already exists",
                    0, <<>>, get_dest(dl_dict[e], args).file.dest)}
    ELSE IF oc \in ConnectErrors \cup {"AccessDenied"}
    THEN ClientErrorLog(oc) \cup
         (IF args.batch
          THEN {LogRecord("WARNING", "Unable to download",
                          e, <<dl_dict[e]>>, "")}
          ELSE {})
    ELSE {}

\* The record download logs, prefixed with the file's name through the
\* FileLogAdapter, for the outcome it returns with.
DownloadLog(e, oc) ==
    IF oc = "NotFound"
    THEN {LogRecord("WARNING", "Not a valid file", 0, <<>>, target[e].name)}
    ELSE IF oc = "DryRun"
    THEN {LogRecord("WARNING", "Dry run", 0, <<>>, target[e].name)}
    ELSE IF oc = "WriteFailure"
    THEN {LogRecord("ERROR", "Could not be written", 0, <<>>, target[e].name)}
    ELSE IF oc = "VerifyFailure"
    THEN {LogRecord("ERROR", "Could not be verified", 0, <<>>, target[e].name)}
    ELSE IF oc = "HashMismatch"
    THEN {LogRecord("ERROR", "Hash mismatch", 0, <<>>, target[e].name)}
    ELSE {}

\* PrepFailed with the batch loop left at the first failure.
PrepFailedAbort(e, oc) ==
    /\ outcome' = [outcome EXCEPT ![e] = oc]
    /\ stage' = [stage EXCEPT ![e] = "finished"]
    /\ file' = NoFile
    /\ IF args.batch
       THEN /\ errors' = errors + 1
            /\ pc' = "collect"
            /\ line' = line
            /\ exit_code' = exit_code
       ELSE /\ errors' = errors
            /\ exit_code' = 1
            /\ pc' = "done"
            /\ line' = line

\* PrepFailed whose single-mode except clauses fall through to the download.
PrepFailedFallsThrough(e, oc) ==
    /\ outcome' = [outcome EXCEPT ![e] = oc]
    /\ file' = NoFile
    /\ IF args.batch
       THEN /\ stage' = [stage EXCEPT ![e] = "finished"]
            /\ errors' = errors + 1
            /\ Continue(e)
            /\ exit_code' = exit_code
       ELSE /\ stage' = [stage EXCEPT ![e] = "queued"]
            /\ errors' = errors
            /\ exit_code' = 1
            /\ pc' = "single_download"
            /\ line' = line

\* An except clause around prep_download: in batch mode count the error and
\* continue with the next entry; in single mode set exit_code 1 and return.
PrepFailed(e, oc) ==
    /\ outcome' = [outcome EXCEPT ![e] = oc]
    /\ stage' = [stage EXCEPT ![e] = "finished"]
    /\ file' = NoFile
    /\ IF args.batch
       THEN /\ errors' = errors + 1
            /\ Continue(e)
            /\ exit_code' = exit_code
       ELSE /\ errors' = errors
            /\ exit_code' = 1
            /\ pc' = "done"
            /\ line' = line

\* prep_get_dest with the site contacted before the destination is checked.
prep_connect_first ==
    /\ pc = "get_dest"
    /\ LET e == line
           d == get_dest(dl_dict[e], args)
       IN  IF ~d.ok
           THEN /\ calls' = [calls EXCEPT ![e].prep = @ + 1]
                /\ log' = log \cup ProcessingLog(e) \cup PrepFailureLog(e, "ParseFailure")
                /\ PrepFailed(e, "ParseFailure")
           ELSE IF is_file(d.file.dest) /\ ~args.force
                THEN /\ calls' = [calls EXCEPT ![e].prep = @ + 1, ![e].connect = @ + 1]
                     /\ log' = log \cup ProcessingLog(e) \cup PrepFailureLog(e, "AlreadyExists")
                     /\ PrepFailed(e, "AlreadyExists")
                ELSE /\ calls' = [calls EXCEPT ![e].prep = @ + 1]
                     /\ log' = log \cup ProcessingLog(e)
                     /\ file' = d.file
                     /\ stage' = [stage EXCEPT ![e] = "resolved"]
                     /\ pc' = "connect"
                     /\ UNCHANGED <<outcome, errors, exit_code, line>>
    /\ UNCHANGED <<args, dl_dict, fs, target, futures, fut, result, opened, sha1, sites,
                   input, output, hashing>>

\* The entry's turn starts (in batch mode it is announced in the log) with
\* prep_download's first part: get_dest, then the check that the destination
\* is not already a file (unless --force).
prep_get_dest ==
    /\ pc = "get_dest"
    /\ LET e == line
           d == get_dest(dl_dict[e], args)
       IN  /\ calls' = [calls EXCEPT ![e].prep = @ + 1]
           /\ IF ~d.ok
              THEN /\ PrepFailed(e, "ParseFailure")
                   /\ log' = log \cup ProcessingLog(e) \cup PrepFailureLog(e, "ParseFailure")
              ELSE IF is_file(d.file.dest) /\ ~args.force
                   THEN /\ PrepFailed(e, "AlreadyExists")
                        /\ log' = log \cup ProcessingLog(e) \cup PrepFailureLog(e, "AlreadyExists")
                   ELSE /\ file' = d.file
                        /\ stage' = [stage EXCEPT ![e] = "resolved"]
                        /\ pc' = "connect"
                        /\ log' = log \cup ProcessingLog(e)
                        /\ UNCHANGED <<outcome, errors, exit_code, line>>
    /\ UNCHANGED <<args, dl_dict, fs, target, futures, fut, result, opened, sha1, sites,
                   input, output, hashing>>

\* prep_download, second part: connect_to_site(file.site, args) returns a new
\* Site or raises one of ConnectErrors, which it logs before.
\* connect_to_site that logs a failure and goes on to the query all the same.
connect_to_site_goes_on ==
    /\ pc = "connect"
    /\ LET e == line
       IN  /\ calls' = [calls EXCEPT ![e].connect = @ + 1]
           /\ stage' = [stage EXCEPT ![e] = "connected"]
           /\ pc' = "query"
           /\ \/ /\ sites' = [sites EXCEPT ![file.site] = @ + 1]
                 /\ UNCHANGED <<outcome, log>>
              \/ /\ \E err \in ConnectErrors :
                        /\ outcome' = [outcome EXCEPT ![e] = err]
                        /\ log' = log \cup PrepFailureLog(e, err)
                 /\ sites' = sites
           /\ UNCHANGED <<file, errors, exit_code, line>>
    /\ UNCHANGED <<args, dl_dict, fs, target, futures, fut, result, opened, sha1, input, output, hashing>>

connect_to_site ==
    /\ pc = "connect"
    /\ LET e == line
       IN  /\ calls' = [calls EXCEPT ![e].connect = @ + 1]
           /\ \/ /\ sites' = [sites EXCEPT ![file.site] = @ + 1]
                 /\ stage' = [stage EXCEPT ![e] = "connected"]
                 /\ pc' = "query"
                 /\ UNCHANGED <<file, outcome, errors, exit_code, line, log>>
              \/ /\ \E err \in ConnectErrors :
                        /\ PrepFailed(e, err)
                        /\ log' = log \cup PrepFailureLog(e, err)
                 /\ sites' = sites
    /\ UNCHANGED <<args, dl_dict, fs, target, futures, fut, result, opened, sha1, input, output, hashing>>

\* Submit with the new call put at the head of the pool's queue.
SubmitFront(e, f) ==
    /\ target' = [target EXCEPT ![e] = f]
    /\ stage' = [stage EXCEPT ![e] = "queued"]
    /\ file' = NoFile
    /\ IF args.batch
       THEN /\ futures' = <<e>> \o futures
            /\ Continue(e)
       ELSE /\ futures' = futures
            /\ pc' = "single_download"
            /\ line' = line

\* The statements after a successful prep_download: batch_download submits
\* download(file, args) to the executor and goes on with the next entry;
\* process_download calls download(file, args) itself.
Submit(e, f) ==
    /\ target' = [target EXCEPT ![e] = f]
    /\ stage' = [stage EXCEPT ![e] = "queued"]
    /\ file' = NoFile
    /\ IF args.batch
       THEN /\ futures' = Append(futures, e)
            /\ Continue(e)
       ELSE /\ futures' = futures
            /\ pc' = "single_download"
            /\ line' = line

\* prep_download, third part: query_api(file.name, site) returns an Image, with
\* or without imageinfo, or raises APIError.
query_api ==
    /\ pc = "query"
    /\ LET e == line
       IN  /\ calls' = [calls EXCEPT ![e].query = @ + 1]
           /\ \/ /\ \E info \in BOOLEAN : Submit(e, [file EXCEPT !.imageinfo = info])
                 /\ UNCHANGED <<outcome, errors, exit_code, log>>
              \/ /\ PrepFailed(e, "AccessDenied")
                 /\ log' = log \cup PrepFailureLog(e, "AccessDenied")
                 /\ UNCHANGED <<target, futures>>
    /\ UNCHANGED <<args, dl_dict, fs, fut, result, opened, sha1, sites, input, output, hashing>>

(* ---- download(f, args): on a pool worker, or on the main thread ---- *)

\* The entries whose download occupies a worker thread.
Running == {e \in Entries : stage[e] \in {"transferring", "verifying"}}

\* WorkerFree without the limit on the number of worker threads.
WorkerUnbounded(e) ==
    \A i \in 1..Len(futures) : stage[futures[i]] = "queued" =>
        \E j \in 1..i : futures[j] = e

\* WorkerFree of a pool that keeps one of its args.threads workers back.
WorkerFreeOffByOne(e) ==
    /\ Cardinality(Running) < args.threads - 1
    /\ \A i \in 1..Len(futures) : stage[futures[i]] = "queued" =>
          \E j \in 1..i : futures[j] = e

\* ThreadPoolExecutor(max_workers=args.threads): a submitted call starts when
\* it is the oldest one waiting and a worker is free.
WorkerFree(e) ==
    /\ Cardinality(Running) < args.threads
    /\ \A i \in 1..Len(futures) : stage[futures[i]] = "queued" =>
          \E j \in 1..i : futures[j] = e

\* MayStart with a failed transfer started again.
MayStartRetry(e) ==
    /\ \/ stage[e] = "queued"
       \/ stage[e] = "finished" /\ outcome[e] \in TransferFailures
    /\ IF args.batch THEN WorkerFree(e) ELSE pc = "single_download"

\* When download(target[e], args) may start.
\* MayStart that lets a worker take an entry the loop is still preparing.
MayStartUnsubmitted(e) ==
    /\ stage[e] \in {"queued", "connected"}
    /\ IF args.batch THEN WorkerFree(e) ELSE pc = "single_download"

MayStart(e) ==
    /\ stage[e] = "queued"
    /\ IF args.batch THEN WorkerFree(e) ELSE pc = "single_download"

\* Return with a missing file, which download only warns about, not counted.
ReturnUncounted(e, oc, n) ==
    /\ stage' = [stage EXCEPT ![e] = "finished"]
    /\ outcome' = [outcome EXCEPT ![e] = oc]
    /\ result' = [result EXCEPT ![e] = IF oc = "NotFound" THEN 0 ELSE n]
    /\ log' = log \cup DownloadLog(e, oc)

\* download returns n with the outcome oc, which it has logged.
Return(e, oc, n) ==
    /\ stage' = [stage EXCEPT ![e] = "finished"]
    /\ outcome' = [outcome EXCEPT ![e] = oc]
    /\ result' = [result EXCEPT ![e] = n]
    /\ log' = log \cup DownloadLog(e, oc)

\* download_start with --dry-run looked at only once the destination is open.
download_start_dry_run_late(e) ==
    /\ MayStart(e)
    /\ calls' = [calls EXCEPT ![e].download = @ + 1]
    /\ IF ~target[e].imageinfo
       THEN Return(e, "NotFound", 1) /\ UNCHANGED <<fs, opened>>
       ELSE \/ /\ opened' = [opened EXCEPT ![e] = fs[target[e].dest]]
               /\ fs' = [fs EXCEPT ![target[e].dest] = "file"]
               /\ IF args.dry_run
                  THEN Return(e, "DryRun", 0)
                  ELSE /\ stage' = [stage EXCEPT ![e] = "transferring"]
                       /\ UNCHANGED <<outcome, result, log>>
            \/ Return(e, "WriteFailure", 1) /\ UNCHANGED <<fs, opened>>
    /\ UNCHANGED <<args, dl_dict, pc, line, file, target, futures, fut, errors,
                   exit_code, sha1, sites, input, output, hashing>>

\* download_start with the imageinfo looked at only once the destination is open.
download_start_imageinfo_late(e) ==
    /\ MayStart(e)
    /\ calls' = [calls EXCEPT ![e].download = @ + 1]
    /\ IF args.dry_run /\ target[e].imageinfo
       THEN Return(e, "DryRun", 0) /\ UNCHANGED <<fs, opened>>
       ELSE \/ /\ opened' = [opened EXCEPT ![e] = fs[target[e].dest]]
               /\ fs' = [fs EXCEPT ![target[e].dest] = "file"]
               /\ IF ~target[e].imageinfo
                  THEN Return(e, "NotFound", 1)
                  ELSE /\ stage' = [stage EXCEPT ![e] = "transferring"]
                       /\ UNCHANGED <<outcome, result, log>>
            \/ Return(e, "WriteFailure", 1) /\ UNCHANGED <<fs, opened>>
    /\ UNCHANGED <<args, dl_dict, pc, line, file, target, futures, fut, errors,
                   exit_code, sha1, sites, input, output, hashing>>

\* download up to the opening of the destination: no imageinfo is NotFound,
\* --dry-run returns before touching the disk, otherwise dest.open("wb")
\* creates or truncates the destination, or raises OSError.
download_start_dry_run_first(e) ==
    /\ MayStart(e)
    /\ calls' = [calls EXCEPT ![e].download = @ + 1]
    /\ IF args.dry_run
       THEN Return(e, "DryRun", 0) /\ UNCHANGED <<fs, opened>>
       ELSE IF ~target[e].imageinfo
            THEN Return(e, "NotFound", 1) /\ UNCHANGED <<fs, opened>>
            ELSE \/ /\ opened' = [opened EXCEPT ![e] = fs[target[e].dest]]
                    /\ fs' = [fs EXCEPT ![target[e].dest] = "file"]
                    /\ stage' = [stage EXCEPT ![e] = "transferring"]
                    /\ UNCHANGED <<outcome, result, log>>
                 \/ Return(e, "WriteFailure", 1) /\ UNCHANGED <<fs, opened>>
    /\ UNCHANGED <<args, dl_dict, pc, line, file, target, futures, fut, errors,
                   exit_code, sha1, sites, input, output, hashing>>

download_start(e) ==
    /\ MayStart(e)
    /\ calls' = [calls EXCEPT ![e].download = @ + 1]
    /\ IF ~target[e].imageinfo
       THEN Return(e, "NotFound", 1) /\ UNCHANGED <<fs, opened>>
       ELSE IF args.dry_run
            THEN Return(e, "DryRun", 0) /\ UNCHANGED <<fs, opened>>
            ELSE \/ /\ opened' = [opened EXCEPT ![e] = fs[target[e].dest]]
                    /\ fs' = [fs EXCEPT ![target[e].dest] = "file"]
                    /\ stage' = [stage EXCEPT ![e] = "transferring"]
                    /\ UNCHANGED <<outcome, result, log>>
                 \/ Return(e, "WriteFailure", 1) /\ UNCHANGED <<fs, opened>>
    /\ UNCHANGED <<args, dl_dict, pc, line, file, target, futures, fut, errors,
                   exit_code, sha1, sites, input, output, hashing>>

\* download_transfer whose except clause logs and counts the failure but
\* does not return.
download_transfer_goes_on(e) ==
    /\ stage[e] = "transferring"
    /\ calls' = [calls EXCEPT ![e].get = @ + 1]
    /\ \/ stage' = [stage EXCEPT ![e] = "verifying"] /\ UNCHANGED <<outcome, result, log>>
       \/ /\ stage' = [stage EXCEPT ![e] = "verifying"]
          /\ outcome' = [outcome EXCEPT ![e] = "WriteFailure"]
          /\ result' = [result EXCEPT ![e] = 1]
          /\ log' = log \cup DownloadLog(e, "WriteFailure")
    /\ UNCHANGED <<args, dl_dict, fs, pc, line, file, target, futures, fut, errors,
                   exit_code, opened, sha1, sites, input, output, hashing>>

\* The streamed transfer: the file's bytes are requested from the site, and
\* every chunk is written, or the request or a write raises OSError.
download_transfer_unlinks(e) ==
    /\ stage[e] = "transferring"
    /\ calls' = [calls EXCEPT ![e].get = @ + 1]
    /\ \/ stage' = [stage EXCEPT ![e] = "verifying"] /\ fs' = fs /\ UNCHANGED <<outcome, result, log>>
       \/ Return(e, "WriteFailure", 1) /\ fs' = [fs EXCEPT ![target[e].dest] = "absent"]
    /\ UNCHANGED <<args, dl_dict, pc, line, file, target, futures, fut, errors,
                   exit_code, opened, sha1, sites, input, output, hashing>>

download_transfer(e) ==
    /\ stage[e] = "transferring"
    /\ calls' = [calls EXCEPT ![e].get = @ + 1]
    /\ \/ stage' = [stage EXCEPT ![e] = "verifying"] /\ UNCHANGED <<outcome, result, log>>
       \/ Return(e, "WriteFailure", 1)
    /\ UNCHANGED <<args, dl_dict, fs, pc, line, file, target, futures, fut, errors,
                   exit_code, opened, sha1, sites, input, output, hashing>>

\* The SHA1 digests of the bytes "foobar" and of no bytes.
Sha1Foobar == "8843d7f92416211de9ebb963ff4ce28125932878"
Sha1Empty == "da39a3ee5e6b4b0d3255bfef95601890afd80709"

\* The digests verify_hash may return for a downloaded file.
Digests == {Sha1Foobar, Sha1Empty}

\* file.imageinfo["sha1"], the hash the server declares for the file.
file_sha1 == Sha1Foobar

\* download_verify without the comparison of the two hashes.
download_verify_unchecked(e) ==
    /\ stage[e] = "verifying"
    /\ calls' = [calls EXCEPT ![e].verify = @ + 1]
    /\ \/ Return(e, "VerifyFailure", 1) /\ sha1' = sha1
       \/ \E dl_sha1 \in Digests :
             /\ sha1' = [sha1 EXCEPT ![e] = dl_sha1]
             /\ Return(e, "Success", 0)
    /\ UNCHANGED <<args, dl_dict, fs, pc, line, file, target, futures, fut, errors,
                   exit_code, opened, sites, input, output, hashing>>

\* download_verify that starts the transfer again after a hash mismatch.
download_verify_restarts(e) ==
    /\ stage[e] = "verifying"
    /\ calls' = [calls EXCEPT ![e].verify = @ + 1]
    /\ \/ Return(e, "VerifyFailure", 1) /\ sha1' = sha1
       \/ \E dl_sha1 \in Digests :
             /\ sha1' = [sha1 EXCEPT ![e] = dl_sha1]
             /\ IF dl_sha1 = file_sha1
                THEN Return(e, "Success", 0)
                ELSE /\ stage' = [stage EXCEPT ![e] = "transferring"]
                     /\ UNCHANGED <<outcome, result, log>>
    /\ UNCHANGED <<args, dl_dict, fs, pc, line, file, target, futures, fut, errors,
                   exit_code, opened, sites, input, output, hashing>>

\* verify_hash(dest) raises OSError or returns the digest of the local file,
\* which is compared with the server's sha1.
download_verify(e) ==
    /\ stage[e] = "verifying"
    /\ calls' = [calls EXCEPT ![e].verify = @ + 1]
    /\ \/ Return(e, "VerifyFailure", 1) /\ sha1' = sha1
       \/ \E dl_sha1 \in Digests :
             /\ sha1' = [sha1 EXCEPT ![e] = dl_sha1]
             /\ IF dl_sha1 = file_sha1
                THEN Return(e, "Success", 0)
                ELSE Return(e, "HashMismatch", 1)
    /\ UNCHANGED <<args, dl_dict, fs, pc, line, file, target, futures, fut, errors,
                   exit_code, opened, sites, input, output, hashing>>

(* ---- collecting the results ---- *)

\* future.result() returns once the call has finished.
FutureDone(e) == stage[e] = "finished"

\* ExecutorIdle of an executor that is shut down without waiting.
ExecutorNoWait == TRUE

\* Leaving the with block: the executor's shutdown waits for every submitted call.
ExecutorIdle == \A i \in 1..Len(futures) : FutureDone(futures[i])

\* collect with the result of the future thrown away.
collect_drop ==
    /\ pc = "collect"
    /\ fut <= Len(futures)
    /\ FutureDone(futures[fut])
    /\ outcome[futures[fut]] # "Unexpected"
    /\ errors' = errors
    /\ fut' = fut + 1
    /\ UNCHANGED <<args, dl_dict, fs, pc, line, file, target, futures, exit_code,
                   stage, outcome, result, calls, opened, sha1, sites, log, input, output, hashing>>

\* errors += future.result(), for the next future of the list.
collect ==
    /\ pc = "collect"
    /\ fut <= Len(futures)
    /\ FutureDone(futures[fut])
    /\ outcome[futures[fut]] # "Unexpected"
    /\ errors' = errors + result[futures[fut]]
    /\ fut' = fut + 1
    /\ UNCHANGED <<args, dl_dict, fs, pc, line, file, target, futures, exit_code,
                   stage, outcome, result, calls, opened, sha1, sites, log, input, output, hashing>>

\* batch_download returns errors.
batch_return ==
    /\ pc = "collect"
    /\ fut > Len(futures)
    /\ ExecutorIdle
    /\ pc' = "returned"
    /\ UNCHANGED <<args, dl_dict, fs, line, file, target, futures, fut, errors,
                   exit_code, stage, outcome, result, calls, opened, sha1, sites,
                   log, input, output, hashing>>

\* The bitwise exclusive or of two naturals (Python's a ^ b).
RECURSIVE Xor(_, _)
Xor(a, b) ==
    IF a = 0 THEN b
    ELSE IF b = 0 THEN a
    ELSE (((a % 2) + (b % 2)) % 2) + (2 * Xor(a \div 2, b \div 2))

\* "s"[:n] for n >= 0: nothing of the string for 0, all of it from 1 on.
SliceS(n) == IF n >= 1 THEN "s" ELSE ""

\* plural with the "s" always there.
plural_always(n) == "s"

\* "s"[: errors ^ 1], the ending of "problem" in the summary.
plural(n) == SliceS(Xor(n, 1))

\* What process_download logs after batch_download returned errors: the
\* summary warning if errors is not 0.
summary(n) ==
    IF n # 0
    THEN {LogRecord("WARNING",
                    ToString(n) \o " problem" \o plural(n) \o " encountered during batch processing",
                    0, <<>>, "")}
    ELSE {}

\* batch_exit with the error count itself as the exit code.
batch_exit_raw ==
    /\ pc = "returned"
    /\ log' = log \cup summary(errors)
    /\ exit_code' = errors
    /\ pc' = "done"
    /\ UNCHANGED <<args, dl_dict, fs, line, file, target, futures, fut, errors,
                   stage, outcome, result, calls, opened, sha1, sites, input, output, hashing>>

\* process_download, batch mode: if there were errors, the summary is logged
\* and the exit code is 1.
batch_exit ==
    /\ pc = "returned"
    /\ log' = log \cup summary(errors)
    /\ exit_code' = IF errors # 0 THEN 1 ELSE exit_code
    /\ pc' = "done"
    /\ UNCHANGED <<args, dl_dict, fs, line, file, target, futures, fut, errors,
                   stage, outcome, result, calls, opened, sha1, sites, input, output, hashing>>

\* single_exit with the value download returned thrown away.
single_exit_ignore ==
    /\ pc = "single_download"
    /\ FutureDone(1)
    /\ exit_code' = exit_code
    /\ pc' = "done"
    /\ UNCHANGED <<args, dl_dict, fs, line, file, target, futures, fut, errors,
                   stage, outcome, result, calls, opened, sha1, sites, log, input, output, hashing>>

\* process_download, single mode: exit code 1 if download returned errors.
single_exit ==
    /\ pc = "single_download"
    /\ FutureDone(1)
    /\ exit_code' = IF result[1] # 0 THEN 1 ELSE exit_code
    /\ pc' = "done"
    /\ UNCHANGED <<args, dl_dict, fs, line, file, target, futures, fut, errors,
                   stage, outcome, result, calls, opened, sha1, sites, log, input, output, hashing>>

Next ==
    \/ process_download
    \/ prep_get_dest
    \/ connect_to_site
    \/ query_api
    \/ \E e \in Entries : download_start(e)
    \/ \E e \in Entries : download_transfer(e)
    \/ \E e \in Entries : download_verify(e)
    \/ collect
    \/ batch_return
    \/ batch_exit
    \/ single_exit

Spec == Init /\ [][Next]_vars

\* The run when every collaborator call returns and every runnable thread is
\* scheduled: a step that can be taken is taken in the end.  The main thread
\* blocks only in future.result() and in the executor's shutdown, which the
\* workers' returns release.
FairSpec == Spec /\ WF_vars(Next)

TypeOK ==
    /\ pc \in {"start", "get_dest", "connect", "query", "collect", "single_download",
               "returned", "done", "exited", "unwind", "raised"}
    /\ errors \in 0..Len(dl_dict)
    /\ exit_code \in {0, 1}
    /\ \A e \in Entries : result[e] \in {-1, 0, 1}

(* ---- a download that raises something download() does not catch ---- *)

\* The transfer raises an exception that is not an OSError: download() does not
\* catch it, and the future keeps it.
download_raise(e) ==
    /\ args.batch
    /\ stage[e] = "transferring"
    /\ stage' = [stage EXCEPT ![e] = "finished"]
    /\ outcome' = [outcome EXCEPT ![e] = "Unexpected"]
    /\ UNCHANGED <<args, dl_dict, fs, pc, line, file, target, futures, fut, errors,
                   exit_code, result, calls, opened, sha1, sites, log, input, output, hashing>>

\* future.result() raises the exception the future keeps: the collecting loop
\* is left and the with block starts to unwind.
collect_raise ==
    /\ pc = "collect"
    /\ fut <= Len(futures)
    /\ FutureDone(futures[fut])
    /\ outcome[futures[fut]] = "Unexpected"
    /\ pc' = "unwind"
    /\ UNCHANGED <<args, dl_dict, fs, line, file, target, futures, fut, errors,
                   exit_code, stage, outcome, result, calls, opened, sha1, sites,
                   log, input, output, hashing>>

\* The with block's exit: once the executor is idle the exception leaves
\* batch_download.
executor_exit ==
    /\ pc = "unwind"
    /\ ExecutorIdle
    /\ pc' = "raised"
    /\ UNCHANGED <<args, dl_dict, fs, line, file, target, futures, fut, errors,
                   exit_code, stage, outcome, result, calls, opened, sha1, sites,
                   log, input, output, hashing>>

NextRaise ==
    \/ Next
    \/ \E e \in Entries : download_raise(e)
    \/ collect_raise
    \/ executor_exit

SpecRaise == Init /\ [][NextRaise]_vars

(* ---- Ctrl-C: KeyboardInterrupt in the main thread ---- *)

\* How the process ends when KeyboardInterrupt leaves main() uncaught, on the
\* interpreters setup.py supports: Python 3.6 and 3.7 print the traceback and
\* exit with status 1; from 3.8 on the interpreter kills itself with SIGINT,
\* which a shell reports as status 130.
InterruptStatuses == {1, 130}

\* KeyboardInterrupt is raised in the main thread while process_download
\* runs.  Nothing between the raise and main() catches it: the statement in
\* progress is abandoned (in single mode that includes a download under way),
\* and in batch mode the with block starts to unwind.
interrupt ==
    /\ pc \in {"get_dest", "connect", "query", "collect", "single_download"}
    /\ pc' = "interrupting"
    /\ UNCHANGED <<args, dl_dict, fs, line, file, target, futures, fut, errors,
                   exit_code, stage, outcome, result, calls, opened, sha1, sites,
                   log, input, output, hashing>>

\* The exception leaves main(): in batch mode after the executor's shutdown
\* has waited for the submitted downloads; then the interpreter ends the
\* process.
interrupt_exit ==
    /\ pc = "interrupting"
    /\ ExecutorIdle
    /\ pc' = "interrupted"
    /\ exit_code' \in InterruptStatuses
    /\ UNCHANGED <<args, dl_dict, fs, line, file, target, futures, fut, errors,
                   stage, outcome, result, calls, opened, sha1, sites, log, input, output, hashing>>

NextInterrupt ==
    \/ Next
    \/ interrupt
    \/ interrupt_exit

SpecInterrupt == Init /\ [][NextInterrupt]_vars

(* ---- read_batch_file on its own ---- *)

\* Text is a sequence of lines, a line a sequence of tokens (characters, or
\* runs of characters that are never split), the line terminator included.
MaxLines == 2
MaxLineLen == 2

\* What str.strip removes, among the tokens in use.
Whitespace == {" ", "\n"}

\* The tokens the generated lines are made of: white space, the comment mark
\* and a token of content.
LineTokens == {" ", "#", "F"}

\* The sequences over S of length at most n.
SeqsUpTo(S, n) == UNION {[1..k -> S] : k \in 0..n}

\* The lines of a file: content, then the terminator.
Lines == {Append(l, "\n") : l \in SeqsUpTo(LineTokens, MaxLineLen)}

\* The batch file of the tests: two entries, a blank line and a comment.
ExampleText ==
    << <<"File:", "Foo", ".", "jpg", "\n">>,
       <<"\n">>,
       <<"#", "File:", "Bar", ".", "jpg", "\n">>,
       <<"File:", "Baz", ".", "jpg", "\n">> >>

Texts == SeqsUpTo(Lines, MaxLines) \cup {ExampleText}

\* "-" is stdin.
BatchFiles == {"-", "batch.txt"}

\* The arguments when nothing is given but the target.
DefaultArgs ==
    [batch |-> FALSE, force |-> FALSE, dry_run |-> FALSE, threads |-> DefaultThreads,
     site |-> DEFAULT_SITE, site_given |-> FALSE, output |-> ""]

\* The variables of the download run, which a function evaluated on its own
\* does not touch.
runVars == <<dl_dict, fs, file, target, futures, fut, errors, exit_code,
             stage, outcome, result, calls, opened, sha1, sites>>

NoRun ==
    /\ dl_dict = <<>>
    /\ fs = [p \in Paths |-> "absent"]
    /\ file = NoFile
    /\ target = <<>>
    /\ futures = <<>>
    /\ fut = 1
    /\ errors = 0
    /\ exit_code = 0
    /\ stage = <<>>
    /\ outcome = <<>>
    /\ result = <<>>
    /\ calls = <<>>
    /\ opened = <<>>
    /\ sha1 = <<>>
    /\ sites = [h \in Hosts |-> 0]

RECURSIVE lstrip(_)
lstrip(s) == IF s # <<>> /\ Head(s) \in Whitespace THEN lstrip(Tail(s)) ELSE s

RECURSIVE rstrip(_)
rstrip(s) ==
    IF s # <<>> /\ s[Len(s)] \in Whitespace THEN rstrip(SubSeq(s, 1, Len(s) - 1)) ELSE s

\* str.strip: leading and trailing white space removed.
strip(s) == rstrip(lstrip(s))

\* str.startswith for a one-character prefix.
startswith(s, c) == s # <<>> /\ Head(s) = c

InitRead ==
    /\ input \in [batch_file : BatchFiles, text : Texts]
    /\ output = <<>>
    /\ log = {}
    /\ line = 0
    /\ pc = "read_open"
    /\ args = [DefaultArgs EXCEPT !.batch = TRUE]
    /\ NoRun
    /\ hashing = NoHashing

\* read_batch_file starts: dl_dict = {}, and the source is logged.
read_batch_open ==
    /\ pc = "read_open"
    /\ output' = <<>>
    /\ log' = log \cup {LogRecord("INFO",
                                   IF input.batch_file = "-"
                                   THEN "Using stdin for batch download"
                                   ELSE "Using file for batch download",
                                   0, <<>>, "")}
    /\ pc' = "read"
    /\ UNCHANGED <<args, line, input, runVars, hashing>>

\* read_batch_line with the comment mark looked for in the line as read.
read_batch_line_raw ==
    /\ pc = "read"
    /\ line < Len(input.text)
    /\ LET line_num == line + 1
           line_s == strip(input.text[line_num])
       IN  /\ output' = IF line_s # <<>> /\ ~startswith(input.text[line_num], "#")
                        THEN Append(output, <<line_num, line_s>>)
                        ELSE output
           /\ line' = line_num
    /\ UNCHANGED <<args, pc, log, input, runVars, hashing>>

\* One turn of the loop over enumerate(fd, start=1): the line is stripped and
\* kept under its line number unless it is blank or a comment.  output is
\* dl_dict, as the sequence of its (key, value) pairs in insertion order.
read_batch_line ==
    /\ pc = "read"
    /\ line < Len(input.text)
    /\ LET line_num == line + 1
           line_s == strip(input.text[line_num])
       IN  /\ output' = IF line_s # <<>> /\ ~startswith(line_s, "#")
                        THEN Append(output, <<line_num, line_s>>)
                        ELSE output
           /\ line' = line_num
    /\ UNCHANGED <<args, pc, log, input, runVars, hashing>>

\* The input is exhausted: read_batch_file returns dl_dict.
read_batch_return ==
    /\ pc = "read"
    /\ line = Len(input.text)
    /\ pc' = "read_done"
    /\ UNCHANGED <<args, line, log, input, output, runVars, hashing>>

NextRead ==
    \/ read_batch_open
    \/ read_batch_line
    \/ read_batch_return

SpecRead == InitRead /\ [][NextRead]_vars

(* ---- get_dest on its own: urlparse, valid_file, unquote ---- *)

\* A raw target is a sequence of tokens, at most MaxTargetLen of them after
\* an optional URL head.
MaxTargetLen == 4

\* The tokens the file regex accepts as its prefix group, under re.I.
PrefixTokens == {"File:", "image:"}

\* str.lower on the prefix tokens, for the comparison re.I makes.
lower(t) == IF t = "File:" THEN "file:" ELSE t

\* Tokens that consist of word characters (\w) only.
WordTokens == {"a", "wiki", "Example", "jpg", "Foo", "Bar", "Baz"}

\* Tokens that end in the first ':' of the text they are in, letters before it.
ColonTokens == PrefixTokens \cup {"https:"}

\* Tokens made of characters urlsplit accepts in a scheme.
SchemeTokens == WordTokens \cup {"."}

\* What the class [^/\r\n\t\f\v] of the file regex excludes, among the tokens in use.
BodyExcluded == {"/"}

\* The tokens generated targets are made of.
PathTokens == PrefixTokens \cup {"/", ".", "a", " ", "%20", "%2F"}

\* The head of a URL target on OTHER_SITE.
UrlHead == <<"https:", "/", "/", OTHER_SITE, "/">>

\* The targets of the tests.
ExampleURL == UrlHead \o <<"wiki", "/", "File:", "Example", ".", "jpg">>
ExampleFile == <<"File:", "Example", ".", "jpg">>

\* The raw targets: a command-line argument or a line of read_batch_file,
\* without surrounding white space.
RawTargets ==
    {dl \in {h \o r : h \in {<<>>, UrlHead}, r \in SeqsUpTo(PathTokens, MaxTargetLen)}
              \cup {ExampleURL, ExampleFile} :
        strip(dl) = dl}

\* --site: not given, given with the default site's name, given with another.
SiteOptions ==
    {[site |-> DEFAULT_SITE, site_given |-> FALSE],
     [site |-> DEFAULT_SITE, site_given |-> TRUE],
     [site |-> OTHER_SITE, site_given |-> TRUE]}

\* --output: not given, or a path.
OutputOptions == {"", "out.jpg"}

\* The text of a token sequence.
RECURSIVE Join(_)
Join(s) == IF s = <<>> THEN "" ELSE Head(s) \o Join(Tail(s))

\* urllib.parse.urlparse, as far as get_dest reads its result (netloc, path):
\* a scheme is split off when the text before the first ':' starts with a
\* letter and consists of scheme characters; a netloc follows when the rest
\* starts with "//" and runs to the next "/".
urlparse(s) ==
    LET colons == {i \in 1..Len(s) : s[i] \in ColonTokens}
        k == IF colons = {} THEN 0 ELSE CHOOSE i \in colons : \A j \in colons : i <= j
        scheme == /\ k > 0
                  /\ s[1] # "."
                  /\ \A j \in 1..(k - 1) : s[j] \in SchemeTokens
        url == IF scheme THEN SubSeq(s, k + 1, Len(s)) ELSE s
        authority == Len(url) >= 2 /\ url[1] = "/" /\ url[2] = "/"
        slashes == {i \in 3..Len(url) : url[i] = "/"}
        delim == IF slashes = {} THEN Len(url) + 1
                 ELSE CHOOSE i \in slashes : \A j \in slashes : i <= j
    IN  IF authority
        THEN [netloc |-> Join(SubSeq(url, 3, delim - 1)), path |-> SubSeq(url, delim, Len(url))]
        ELSE [netloc |-> "", path |-> url]

\* [^/\r\n\t\f\v]+\.\w+$ : at least one character of the class, a dot, word
\* characters to the end.
BodyMatches(b) ==
    \E k \in 2..(Len(b) - 1) :
        /\ b[k] = "."
        /\ \A j \in 1..(k - 1) : b[j] \notin BodyExcluded
        /\ \A j \in (k + 1)..Len(b) : b[j] \in WordTokens

\* valid_file with the prefix compared as written, without re.I.
valid_file_case_sensitive(s) ==
    LET starts == {i \in 1..Len(s) :
                      s[i] = "File:" /\ BodyMatches(SubSeq(s, i + 1, Len(s)))}
    IN  IF starts = {}
        THEN [match |-> FALSE, group1 |-> "", group2 |-> <<>>]
        ELSE LET i == CHOOSE x \in starts : \A y \in starts : x <= y
             IN  [match |-> TRUE, group1 |-> s[i], group2 |-> SubSeq(s, i + 1, Len(s))]

\* valid_file: file_regex.search, the leftmost place where the pattern
\* (File:|Image:)([^/\r\n\t\f\v]+\.\w+)$ matches, prefix in any case.
valid_file(s) ==
    LET starts == {i \in 1..Len(s) :
                      /\ lower(s[i]) \in {"file:", "image:"}
                      /\ BodyMatches(SubSeq(s, i + 1, Len(s)))}
    IN  IF starts = {}
        THEN [match |-> FALSE, group1 |-> "", group2 |-> <<>>]
        ELSE LET i == CHOOSE x \in starts : \A y \in starts : x <= y
             IN  [match |-> TRUE, group1 |-> s[i], group2 |-> SubSeq(s, i + 1, Len(s))]

\* urllib.parse.unquote: every percent-escape replaced by its character.
RECURSIVE unquote(_)
unquote(s) ==
    IF s = <<>> THEN ""
    ELSE (CASE Head(s) = "%20" -> " "
            [] Head(s) = "%2F" -> "/"
            [] OTHER -> Head(s)) \o unquote(Tail(s))

\* The first half of get_dest: what urlparse and valid_file make of the raw
\* target dl, in the form get_dest above takes it.
parse_target(dl) ==
    LET url == urlparse(dl)
        filename == IF url.netloc # "" THEN url.path ELSE dl
        file_match == valid_file(filename)
    IN  [netloc |-> url.netloc,
         valid |-> file_match.match /\ file_match.group1 # "",
         name |-> IF file_match.match THEN unquote(file_match.group2) ELSE ""]

\* The warning get_dest logs for a URL.
SiteIgnoredRecord ==
    LogRecord("WARNING", "Target is a URL; ignoring site specified with --site", 0, <<>>, "")

\* site_warning that compares the site option with the URL's host.
site_warning_differs(dl, a) == dl.netloc # "" /\ a.site # dl.netloc

\* The condition of that warning: the target is a URL and args.site is not
\* the DEFAULT_SITE object.
site_warning(dl, a) == dl.netloc # "" /\ a.site_given

\* ParseErrorMessage with the file name get_dest worked on, which for a URL
\* is its path, in the place of the input.
ParseErrorMessage_filename(dl) ==
    LET url == urlparse(dl)
    IN  "Could not parse input '" \o Join(IF url.netloc # "" THEN url.path ELSE dl)
            \o "' as a file"

\* The message of the ParseError get_dest raises for the input dl.
ParseErrorMessage(dl) == "Could not parse input '" \o Join(dl) \o "' as a file"

InitParse ==
    /\ input \in RawTargets
    /\ args \in {[DefaultArgs EXCEPT !.site = o.site, !.site_given = o.site_given,
                                     !.output = out] :
                    o \in SiteOptions, out \in OutputOptions}
    /\ output = <<>>
    /\ log = {}
    /\ line = 0
    /\ pc = "parse"
    /\ NoRun
    /\ hashing = NoHashing

\* get_dest(dl, args) is called and returns a File or raises ParseError with
\* its message.
get_dest_call ==
    /\ pc = "parse"
    /\ LET dl == parse_target(input)
           r == get_dest(dl, args)
       IN  /\ output' = [ok |-> r.ok, file |-> r.file,
                         msg |-> IF r.ok THEN "" ELSE ParseErrorMessage(input)]
           /\ log' = IF site_warning(dl, args) THEN log \cup {SiteIgnoredRecord} ELSE log
    /\ pc' = "parsed"
    /\ UNCHANGED <<args, line, input, runVars, hashing>>

NextParse == get_dest_call

SpecParse == InitParse /\ [][NextParse]_vars

(* ---- verify_hash on its own ---- *)

\* Bounds: the longest file, the block verify_hash reads at a time (it stands
\* for BLOCKSIZE, 65536 bytes), and how often the hash of a file is computed.
MaxFileLen == 5
BlockSize == 2
HashCalls == 2

\* The bytes of the files, and the content of the test file of test_verify_hash.
Bytes == {"a", "b"}
Foobar == <<"f", "o", "o", "b", "a", "r">>
Contents == SeqsUpTo(Bytes, MaxFileLen) \cup {Foobar}

\* hashlib's sha1 of the bytes m, as a hex digest: the known digests, and a
\* digest of its own for every other message.
hexdigest(m) ==
    IF m = Foobar THEN Sha1Foobar
    ELSE IF m = <<>> THEN Sha1Empty
    ELSE "sha1:" \o Join(m)

\* dl.read(BLOCKSIZE) at the offset n of a file: the next block, shorter at
\* the end of the file and empty after it.
read(content, n) ==
    SubSeq(content, n + 1, IF n + BlockSize < Len(content) THEN n + BlockSize ELSE Len(content))

InitHash ==
    /\ input \in Contents
    /\ output = <<>>
    /\ hashing = NoHashing
    /\ log = {}
    /\ line = 0
    /\ pc = "hash_call"
    /\ args = DefaultArgs
    /\ NoRun

\* verify_hash_open with a hasher that is kept from one call to the next.
verify_hash_open_keeps_hasher ==
    /\ pc = "hash_call"
    /\ hashing' = [offset |-> 0, hasher |-> hashing.hasher]
    /\ pc' = "hash_read"
    /\ UNCHANGED <<args, line, log, input, output, runVars>>

\* verify_hash(file) is called: a new sha1 object, and the file opened for
\* reading at offset 0.
verify_hash_open ==
    /\ pc = "hash_call"
    /\ hashing' = [offset |-> 0, hasher |-> <<>>]
    /\ pc' = "hash_read"
    /\ UNCHANGED <<args, line, log, input, output, runVars>>

\* buf = dl.read(BLOCKSIZE): a block that is not empty is fed to the hasher
\* and the loop goes on; an empty one ends the loop and verify_hash returns
\* hasher.hexdigest().  output is the sequence of the digests returned.
verify_hash_read ==
    /\ pc = "hash_read"
    /\ LET buf == read(input, hashing.offset)
       IN  IF Len(buf) > 0
           THEN /\ hashing' = [offset |-> hashing.offset + Len(buf),
                               hasher |-> hashing.hasher \o buf]
                /\ UNCHANGED <<pc, output>>
           ELSE /\ output' = Append(output, hexdigest(hashing.hasher))
                /\ pc' = IF Len(output) + 1 < HashCalls THEN "hash_call" ELSE "hash_done"
                /\ UNCHANGED hashing
    /\ UNCHANGED <<args, line, log, input, runVars>>

NextHash ==
    \/ verify_hash_open
    \/ verify_hash_read

SpecHash == InitHash /\ [][NextHash]_vars

(* ---- connect_to_site on its own: Site(...) and site.login ---- *)

DEFAULT_PATH == "/w/"
SitePaths == {DEFAULT_PATH, "/"}
Usernames == {"", "alice"}
Passwords == {"", "secret"}

\* What Site(...) may raise, and what site.login may raise.
SiteErrors == {"ConnectionError", "HTTPError", "InvalidResponse"}
LoginErrors == ConnectErrors

\* No Site yet, no login attempted, nothing returned or raised.
NoSession == [site |-> FALSE, login |-> 0, returned |-> FALSE, raised |-> "none"]

\* The record connect_to_site logs before site.login.
AuthenticateRecord ==
    LogRecord("INFO", "Attempting to authenticate", 0, <<>>, "")

InitConnect ==
    /\ input \in Hosts
    /\ args \in [path : SitePaths, username : Usernames, password : Passwords]
    /\ output = NoSession
    /\ hashing = NoHashing
    /\ log = {}
    /\ line = 0
    /\ pc = "connect_call"
    /\ NoRun

\* connect_to_site(site_name, args) is called: the site is logged, and
\* Site(site_name, path=args.path, ...) returns a Site or raises, and what it
\* raises is logged and raised again.
site_connect ==
    /\ pc = "connect_call"
    /\ \/ /\ output' = [output EXCEPT !.site = TRUE]
          /\ log' = log \cup {LogRecord("INFO", "Connecting to " \o input, 0, <<>>, "")}
          /\ pc' = "connect_login"
       \/ \E err \in SiteErrors :
             /\ output' = [output EXCEPT !.raised = err]
             /\ log' = log \cup {LogRecord("INFO", "Connecting to " \o input, 0, <<>>, "")}
                           \cup ClientErrorLog(err)
             /\ pc' = "connect_done"
    /\ UNCHANGED <<args, line, input, runVars, hashing>>

\* site_login with the login attempted when either credential is given.
site_login_either ==
    /\ pc = "connect_login"
    /\ IF args.username # "" \/ args.password # ""
       THEN \/ /\ output' = [output EXCEPT !.login = @ + 1]
               /\ log' = log \cup {AuthenticateRecord}
               /\ pc' = "connect_return"
            \/ \E err \in LoginErrors :
                  /\ output' = [output EXCEPT !.login = @ + 1, !.raised = err]
                  /\ log' = log \cup {AuthenticateRecord} \cup ClientErrorLog(err)
                  /\ pc' = "connect_done"
       ELSE /\ pc' = "connect_return"
            /\ UNCHANGED <<output, log>>
    /\ UNCHANGED <<args, line, input, runVars, hashing>>

\* if args.username and args.password: site.login(...) returns, or raises,
\* and what it raises is logged and raised again.
site_login ==
    /\ pc = "connect_login"
    /\ IF args.username # "" /\ args.password # ""
       THEN \/ /\ output' = [output EXCEPT !.login = @ + 1]
               /\ log' = log \cup {AuthenticateRecord}
               /\ pc' = "connect_return"
            \/ \E err \in LoginErrors :
                  /\ output' = [output EXCEPT !.login = @ + 1, !.raised = err]
                  /\ log' = log \cup {AuthenticateRecord} \cup ClientErrorLog(err)
                  /\ pc' = "connect_done"
       ELSE /\ pc' = "connect_return"
            /\ UNCHANGED <<output, log>>
    /\ UNCHANGED <<args, line, input, runVars, hashing>>

\* return site
site_return ==
    /\ pc = "connect_return"
    /\ output' = [output EXCEPT !.returned = TRUE]
    /\ pc' = "connect_done"
    /\ UNCHANGED <<args, line, log, input, runVars, hashing>>

NextConnect ==
    \/ site_connect
    \/ site_login
    \/ site_return

SpecConnect == InitConnect /\ [][NextConnect]_vars

(* ---- the batch summary on its own ---- *)

\* Bound: the largest error count batch_download returns.
MaxErrors == 129

InitSummary ==
    /\ input \in 0..MaxErrors
    /\ output = <<>>
    /\ hashing = NoHashing
    /\ log = {}
    /\ line = 0
    /\ pc = "summary"
    /\ args = [DefaultArgs EXCEPT !.batch = TRUE]
    /\ NoRun

\* batch_download has returned input errors: process_download logs the
\* summary, if any, and sets the exit code, which output holds.
summary_log ==
    /\ pc = "summary"
    /\ log' = log \cup summary(input)
    /\ output' = IF input # 0 THEN 1 ELSE 0
    /\ pc' = "summary_done"
    /\ UNCHANGED <<args, line, input, runVars, hashing>>

NextSummary == summary_log

SpecSummary == InitSummary /\ [][NextSummary]_vars

(* ---- batch_download of src/src/wikiget/wikiget.py, which main() calls ---- *)

\* The batch run starts with the executor's loop at the first entry, or with
\* the collecting loop when dl_list is empty; an unreadable batch file ends
\* the process with sys.exit(1).
main_start ==
    /\ pc = "start"
    /\ \/ /\ pc' = "exited"
          /\ log' = log \cup {ReadErrorRecord}
          /\ exit_code' = 1
          /\ line' = line
       \/ /\ IF Len(dl_dict) > 0
             THEN pc' = "main_prep" /\ line' = 1
             ELSE pc' = "main_collect" /\ line' = 0
          /\ UNCHANGED <<exit_code, log>>
    /\ UNCHANGED <<args, dl_dict, fs, file, target, futures, fut, errors,
                   stage, outcome, result, calls, opened, sha1, sites, input, output, hashing>>

\* logging.info(f"Downloading '{line}' at line {line_num}")
Downloading(e) == {LogRecord("INFO", "Downloading", e, <<dl_dict[e]>>, "")}

\* One turn of the loop, up to the except clause: prep_download(line, args)
\* returns a File, which is bound to file, or raises.  A ParseError is
\* logged with the line number, and the loop body goes on after the try
\* statement; any other exception of prep_download leaves the loop and the
\* with block.
main_prep ==
    /\ pc = "main_prep"
    /\ LET e == line
           d == get_dest(dl_dict[e], args)
           Called(c, q) == [calls EXCEPT ![e].prep = @ + 1, ![e].connect = @ + c,
                                         ![e].query = @ + q]
       IN  IF ~d.ok
           THEN /\ calls' = Called(0, 0)
                /\ log' = log \cup Downloading(e)
                               \cup {LogRecord("WARNING", "Could not parse", e, <<dl_dict[e]>>, "")}
                /\ outcome' = [outcome EXCEPT ![e] = "ParseFailure"]
                /\ stage' = [stage EXCEPT ![e] = "finished"]
                /\ pc' = "main_submit"
                /\ UNCHANGED <<file, sites, line>>
           ELSE IF is_file(d.file.dest) /\ ~args.force
           THEN /\ calls' = Called(0, 0)
                /\ outcome' = [outcome EXCEPT ![e] = "AlreadyExists"]
                /\ stage' = [stage EXCEPT ![e] = "finished"]
                /\ pc' = "main_unwind"
                /\ log' = log \cup Downloading(e)
                /\ UNCHANGED <<file, sites, line>>
           ELSE \/ \E err \in ConnectErrors :
                     /\ calls' = Called(1, 0)
                     /\ outcome' = [outcome EXCEPT ![e] = err]
                     /\ stage' = [stage EXCEPT ![e] = "finished"]
                     /\ log' = log \cup Downloading(e) \cup ClientErrorLog(err)
                     /\ pc' = "main_unwind"
                     /\ UNCHANGED <<file, sites, line>>
                \/ /\ calls' = Called(1, 1)
                   /\ outcome' = [outcome EXCEPT ![e] = "AccessDenied"]
                   /\ stage' = [stage EXCEPT ![e] = "finished"]
                   /\ sites' = [sites EXCEPT ![d.file.site] = @ + 1]
                   /\ log' = log \cup Downloading(e) \cup ClientErrorLog("AccessDenied")
                   /\ pc' = "main_unwind"
                   /\ UNCHANGED <<file, line>>
                \/ \E info \in BOOLEAN :
                     /\ calls' = Called(1, 1)
                     /\ file' = [d.file EXCEPT !.imageinfo = info]
                     /\ sites' = [sites EXCEPT ![d.file.site] = @ + 1]
                     /\ stage' = [stage EXCEPT ![e] = "connected"]
                     /\ pc' = "main_submit"
                     /\ log' = log \cup Downloading(e)
                     /\ UNCHANGED <<outcome, line>>
    /\ UNCHANGED <<args, dl_dict, fs, target, futures, fut, errors, exit_code, result,
                   opened, sha1, input, output, hashing>>

\* future = executor.submit(download, file, args); futures.append(future):
\* file is what the last successful prep_download of the loop bound to it.
\* When none has, the name is unbound and UnboundLocalError leaves the loop.
main_submit ==
    /\ pc = "main_submit"
    /\ LET e == line
       IN  IF file = NoFile
           THEN /\ pc' = "main_unwind"
                /\ UNCHANGED <<target, stage, outcome, futures, line>>
           ELSE /\ target' = [target EXCEPT ![e] = file]
                /\ stage' = [stage EXCEPT ![e] = "queued"]
                /\ outcome' = [outcome EXCEPT ![e] = "none"]
                /\ futures' = Append(futures, e)
                /\ IF e < Len(dl_dict)
                   THEN pc' = "main_prep" /\ line' = e + 1
                   ELSE pc' = "main_collect" /\ line' = e
    /\ UNCHANGED <<args, dl_dict, fs, file, fut, errors, exit_code, result, calls,
                   opened, sha1, sites, log, input, output, hashing>>

\* future.result() for the next future of the list; the value is dropped.
main_collect ==
    /\ pc = "main_collect"
    /\ fut <= Len(futures)
    /\ FutureDone(futures[fut])
    /\ fut' = fut + 1
    /\ UNCHANGED <<args, dl_dict, fs, pc, line, file, target, futures, errors, exit_code,
                   stage, outcome, result, calls, opened, sha1, sites, log, input, output, hashing>>

\* The with block ends once the executor is idle: after the collecting loop
\* batch_download and main return; after an exception the traceback is
\* printed and the exit status is 1.
main_exit ==
    /\ \/ pc = "main_collect" /\ fut > Len(futures) /\ pc' = "done" /\ exit_code' = exit_code
       \/ pc = "main_unwind" /\ pc' = "raised" /\ exit_code' = 1
    /\ ExecutorIdle
    /\ UNCHANGED <<args, dl_dict, fs, line, file, target, futures, fut, errors,
                   stage, outcome, result, calls, opened, sha1, sites, log, input, output, hashing>>

InitMain == Init /\ args.batch

NextMain ==
    \/ main_start
    \/ main_prep
    \/ main_submit
    \/ \E e \in Entries : download_start(e)
    \/ \E e \in Entries : download_transfer(e)
    \/ \E e \in Entries : download_verify(e)
    \/ main_collect
    \/ main_exit

SpecMain == InitMain /\ [][NextMain]_vars

(* ---- the claims ---- *)

\* batch_download has returned (or process_download after it).
BatchReturned == args.batch /\ pc \in {"returned", "done"}

\* The entries whose prepare step ended without a failure.
Prepared(e) == target[e] # NoFile

\* C1: when the destination is already a file and --force is not given,
\* prep_download fails with AlreadyExists (FileExistsError), and at that
\* moment neither connect_to_site nor query_api has been called for the
\* target and no session has been established.
C1_FailFastBeforeNetwork ==
    /\ [](\A e \in Entries :
            outcome[e] = "AlreadyExists" =>
                calls[e].connect = 0 /\ calls[e].query = 0)
    /\ [][\A e \in Entries :
            LET d == get_dest(dl_dict[e], args)
            IN  (/\ calls'[e].prep = calls[e].prep + 1
                 /\ d.ok
                 /\ fs[d.file.dest] = "file"
                 /\ ~args.force)
                => /\ outcome'[e] = "AlreadyExists"
                   /\ calls'[e].connect = 0
                   /\ calls'[e].query = 0
                   /\ sites' = sites
                   /\ pc' \notin {"connect", "query"}]_vars

C1_Witness ==
    \E e \in Entries :
        /\ outcome[e] = "AlreadyExists"
        /\ calls[e].prep = 1
        /\ ~args.force
        /\ fs[get_dest(dl_dict[e], args).file.dest] = "file"

\* C2: in batch mode no entry's failure, at whatever stage, stops the run:
\* when batch_download has returned every entry was prepared, and every entry
\* whose prepare succeeded was transferred to the end.  Only the failure to
\* read the batch file ends the process early, before any entry is touched.
C2_BatchContinuesPastFailures ==
    /\ BatchReturned =>
         \A e \in Entries :
            /\ calls[e].prep = 1
            /\ outcome[e] \notin PrepFailures =>
                  calls[e].download = 1 /\ stage[e] = "finished"
    /\ pc = "exited" =>
         /\ args.batch
         /\ \A e \in Entries : calls[e] = NoCalls /\ outcome[e] = "none"

C2_Witness ==
    /\ BatchReturned
    /\ Len(dl_dict) >= 2
    /\ outcome[1] \in Failures
    /\ outcome[2] = "Success"
    /\ calls[2].download = 1

\* C3: the error count batch_download returns is the number of entries whose
\* outcome is a failure, prepare and transfer failures alike; every entry has
\* exactly one outcome, counted 0 or 1.
C3_ErrorCountExact ==
    BatchReturned =>
        /\ \A e \in Entries : outcome[e] \in Failures \cup Successes
        /\ errors = Cardinality({e \in Entries : outcome[e] \in Failures})

C3_Witness ==
    /\ BatchReturned
    /\ args.threads > 1
    /\ errors = 2
    /\ \E e \in Entries : outcome[e] \in PrepFailures
    /\ \E e \in Entries : outcome[e] \in TransferFailures

\* C4: join-all barrier: batch_download is left, by returning or by an
\* exception raised while a result is collected, only after every submitted
\* download has finished.
C4_JoinAll ==
    pc \in {"returned", "done", "raised"} =>
        \A e \in Entries : stage[e] \notin {"queued", "transferring", "verifying"}

C4_Witness ==
    /\ pc = "raised"
    /\ Len(futures) = 2
    /\ outcome[futures[1]] = "Unexpected"
    /\ outcome[futures[2]] = "Success"

\* C5: session reuse: within one run at most one session is established per
\* site host.
C5_OneSessionPerHost == \A h \in Hosts : sites[h] <= 1

\* A step of the entry e: of its prepare on the main thread, or of its download.
EntryStep(e) ==
    \/ line = e /\ (prep_get_dest \/ connect_to_site \/ query_api)
    \/ download_start(e)
    \/ download_transfer(e)
    \/ download_verify(e)

\* The entry is inside a blocking call: connect or login, the metadata query,
\* the streamed transfer or the hash re-read.
Blocked(e) == stage[e] \in {"resolved", "connected", "transferring", "verifying"}

\* C6: entry independence with more than one worker: while one entry stays
\* inside a blocking call, the other entries can still go on: as long as
\* another entry has no outcome yet, some other entry can take a step.
C6_EntryIndependence ==
    (args.batch /\ args.threads > 1) =>
        \A b \in Entries :
            (Blocked(b) /\ \E e \in Entries \ {b} : outcome[e] = "none")
                => \E e \in Entries \ {b} : ENABLED EntryStep(e)

\* C7: no destination path is opened for writing by more than one target of
\* a batch run.
C7_DestinationNotShared ==
    args.batch =>
        \A e1, e2 \in Entries :
            (e1 # e2 /\ opened[e1] # "no" /\ opened[e2] # "no")
                => target[e1].dest # target[e2].dest

\* C8: without --force no existing file is overwritten: whenever a download
\* opened its destination for writing, the path was not a file at that
\* moment, or --force was given.
C8_NoSilentOverwrite ==
    \A e \in Entries : opened[e] = "file" => args.force

\* C9: bounded concurrency: never more entries in the transfer or verify
\* stage than args.threads; with the default of one thread, at most one.
C9_BoundedConcurrency ==
    /\ Cardinality(Running) <= args.threads
    /\ args.threads = DefaultThreads => Cardinality(Running) <= 1

C9_Witness ==
    /\ args.batch
    /\ args.threads = DefaultThreads
    /\ \E e1, e2 \in Entries : stage[e1] = "transferring" /\ stage[e2] = "queued"

\* C10: every batch entry is prepared exactly once, and download is invoked
\* for it exactly once if its prepare succeeded and never otherwise, never a
\* second time.
C10_OncePerEntry ==
    args.batch =>
        /\ \A e \in Entries :
              /\ calls[e].prep <= 1
              /\ calls[e].download <= 1
              /\ calls[e].download = 1 => Prepared(e) /\ calls[e].prep = 1
        /\ BatchReturned =>
              \A e \in Entries :
                  /\ calls[e].prep = 1
                  /\ calls[e].download = (IF Prepared(e) THEN 1 ELSE 0)

C10_Witness ==
    /\ BatchReturned
    /\ args.threads > 1
    /\ Len(dl_dict) >= 2
    /\ \A e \in Entries : calls[e].prep = 1
    /\ \E e \in Entries : calls[e].download = 1 /\ outcome[e] \in TransferFailures
    /\ \E e \in Entries : calls[e].download = 0

\* process_download has returned, or sys.exit has ended the process.
Terminated == pc \in {"done", "exited"}

\* How many steps a target in stage st can still take, at most.
StageRank(st) ==
    CASE st = "pending" -> 6
      [] st = "resolved" -> 5
      [] st = "connected" -> 4
      [] st = "queued" -> 3
      [] st = "transferring" -> 2
      [] st = "verifying" -> 1
      [] OTHER -> 0

RECURSIVE StepsLeft(_)
StepsLeft(n) == IF n = 0 THEN 0 ELSE StageRank(stage[n]) + StepsLeft(n - 1)

\* A bound on the number of steps the run can still take: those of the
\* entries, the results still to collect, and the way out of process_download.
Measure ==
    StepsLeft(Len(dl_dict)) + (Len(dl_dict) + 1 - fut)
        + (CASE pc = "start" -> 3
             [] pc \in {"done", "exited"} -> 0
             [] pc = "returned" -> 1
             [] OTHER -> 2)

\* C11: end-to-end termination: when every collaborator call returns, the run
\* terminates, for every worker count from 1 on: until it has terminated
\* some step can be taken, and every step brings the end nearer, so that a
\* run in which steps that can be taken are taken ends.  A batch of N
\* entries none of which fails ends with error count 0 and exit code 0,
\* download having been invoked exactly once for each of the N entries.
C11_TerminatesAllSucceed ==
    /\ [](Terminated \/ ENABLED Next)
    /\ [](Measure >= 0)
    /\ [][Measure' < Measure]_vars
    /\ []((pc = "done" /\ args.batch /\ \A e \in Entries : outcome[e] \notin Failures)
            => /\ errors = 0
               /\ exit_code = 0
               /\ \A e \in Entries : calls[e].download = 1 /\ outcome[e] \in Successes
               /\ Cardinality({e \in Entries : calls[e].download = 1}) = Len(dl_dict))

C11_Witness ==
    /\ pc = "done"
    /\ args.batch
    /\ Len(dl_dict) = 2
    /\ args.threads = 2
    /\ \A e \in Entries : dl_dict[e].valid /\ outcome[e] = "Success"
    /\ errors = 0
    /\ exit_code = 0

\* C12: batch exit policy: in batch mode process_download returns 0 exactly
\* when the summed error count is 0, and 1, never the count itself, for
\* every positive count, also when some downloads succeeded.
C12_BatchExitPolicy ==
    (args.batch /\ pc = "done") =>
        /\ errors = Cardinality({e \in Entries : outcome[e] \in Failures})
        /\ exit_code = (IF errors = 0 THEN 0 ELSE 1)

C12_Witness ==
    /\ args.batch
    /\ pc = "done"
    /\ errors = 2
    /\ exit_code = 1

\* C13: single-item exit policy: process_download returns 0 exactly when the
\* one outcome is Success or DryRun, and 1 for every failure outcome, of the
\* prepare step and of the transfer alike.
C13_SingleExitPolicy ==
    (~args.batch /\ pc = "done") =>
        /\ outcome[1] \in Successes \cup Failures
        /\ exit_code = (IF outcome[1] \in Successes THEN 0 ELSE 1)

C13_Witness ==
    /\ ~args.batch
    /\ pc = "done"
    /\ outcome[1] = "HashMismatch"
    /\ exit_code = 1

\* C14: every per-item outcome counts as exactly 0 or exactly 1 error: what
\* download returns is 0 for Success and DryRun and 1 for NotFound,
\* WriteFailure, VerifyFailure and HashMismatch, on every path; a failure of
\* the prepare step adds exactly 1 to the batch's error count.
C14_ZeroOrOnePerItem ==
    /\ [](\A e \in Entries :
            /\ result[e] \in {-1, 0, 1}
            /\ result[e] = -1 <=> outcome[e] \in {"none", "Unexpected"} \cup PrepFailures
            /\ result[e] = 0 <=> outcome[e] \in Successes
            /\ result[e] = 1 <=> outcome[e] \in TransferFailures)
    /\ [][\A e \in Entries :
            (args.batch /\ outcome[e] = "none" /\ outcome'[e] \in PrepFailures)
                => errors' = errors + 1]_vars

C14_Witness ==
    \E e1, e2 \in Entries :
        /\ outcome[e1] = "NotFound" /\ result[e1] = 1
        /\ outcome[e2] = "DryRun" /\ result[e2] = 0
        /\ errors = 1

\* C15: when the batch file cannot be opened or read, batch_download logs
\* the error and the process ends with exit code 1 before any entry is
\* resolved, connected or transferred, and nothing runs after that.
C15_UnreadableBatchIsFatal ==
    pc = "exited" =>
        /\ args.batch
        /\ exit_code = 1
        /\ ReadErrorRecord \in log
        /\ futures = <<>>
        /\ \A h \in Hosts : sites[h] = 0
        /\ \A e \in Entries :
              /\ stage[e] = "pending"
              /\ calls[e] = NoCalls
              /\ opened[e] = "no"
        /\ ~ENABLED Next

C15_Witness ==
    /\ pc = "exited"
    /\ Len(dl_dict) = 2
    /\ exit_code = 1
    /\ \A e \in Entries : dl_dict[e].valid /\ calls[e].prep = 0

\* C16: a KeyboardInterrupt raised during processing ends the program with
\* exit code 130, never with 0 or 1, and no download is submitted after it.
C16_InterruptExits130 ==
    /\ pc = "interrupted" => exit_code = 130
    /\ (args.batch /\ pc \in {"interrupting", "interrupted"}) =>
          \A e \in Entries : stage[e] = "queued" => \E i \in 1..Len(futures) : futures[i] = e

\* The line without its leading and trailing white space: from its first
\* token that is not white space to its last.
Trimmed(l) ==
    LET solid == {i \in 1..Len(l) : l[i] \notin Whitespace}
    IN  IF solid = {}
        THEN <<>>
        ELSE SubSeq(l, CHOOSE i \in solid : \A j \in solid : i <= j,
                       CHOOSE i \in solid : \A j \in solid : i >= j)

\* The positions of the lines read_batch_file is to keep.
KeptLines(text) ==
    {n \in 1..Len(text) : Trimmed(text[n]) # <<>> /\ Trimmed(text[n])[1] # "#"}

\* C17: read_batch_file returns the mapping from 1-based line position to
\* trimmed content over exactly the lines whose trimmed content is not empty
\* and does not start with '#'; the keys are positions in the input, skipped
\* lines counted, in ascending order.  The batch file of the tests yields
\* exactly {1: File:Foo.jpg, 4: File:Baz.jpg}.
C17_ReadBatchFile ==
    pc = "read_done" =>
        /\ {output[i][1] : i \in DOMAIN output} = KeptLines(input.text)
        /\ \A i \in DOMAIN output : output[i][2] = Trimmed(input.text[output[i][1]])
        /\ \A i, j \in DOMAIN output : i < j => output[i][1] < output[j][1]
        /\ input.text = ExampleText =>
              output = << <<1, <<"File:", "Foo", ".", "jpg">> >>,
                          <<4, <<"File:", "Baz", ".", "jpg">> >> >>

C17_Witness ==
    /\ pc = "read_done"
    /\ Len(input.text) = 2
    /\ input.text[1] = <<" ", "#", "\n">>
    /\ input.text[2] = <<" ", "F", "\n">>
    /\ output = << <<2, <<"F">> >> >>

\* C18: for every input that parses as a URL with a non-empty host, the
\* resolved site is the URL's host, whatever site option comes with it; the
\* URL https://en.wikipedia.org/wiki/File:Example.jpg resolves to
\* (Example.jpg, Example.jpg, en.wikipedia.org).
C18_UrlHostWins ==
    pc = "parsed" =>
        /\ (urlparse(input).netloc # "" /\ output.ok)
              => output.file.site = urlparse(input).netloc
        /\ (Len(input) >= Len(UrlHead) /\ SubSeq(input, 1, Len(UrlHead)) = UrlHead /\ output.ok)
              => output.file.site = OTHER_SITE
        /\ input = ExampleURL =>
              /\ output.ok
              /\ output.file.name = "Example.jpg"
              /\ args.output = "" => output.file.dest = "Example.jpg"
              /\ output.file.site = "en.wikipedia.org"

C18_Witness ==
    /\ pc = "parsed"
    /\ input = UrlHead \o <<"File:", "a", ".", "a">>
    /\ args.site_given
    /\ args.site = DEFAULT_SITE
    /\ output.ok
    /\ output.file.site = OTHER_SITE

\* C19 as stated: the warning "ignoring site specified with --site" is
\* logged exactly when the input is a URL and the site given with --site
\* differs from the URL's host: never when they are equal, never when the
\* input is not a URL.
C19_WarnIffSiteDiffers ==
    pc = "parsed" =>
        (SiteIgnoredRecord \in log
            <=> /\ urlparse(input).netloc # ""
                /\ args.site_given
                /\ args.site # urlparse(input).netloc)

\* C19, amended: the warning is logged exactly when the input is a URL and a
\* site was given with --site, whatever its value, also one equal to the
\* URL's host; never without --site and never when the input is not a URL.
C19_WarnIffSiteGiven ==
    /\ pc = "parse" => SiteIgnoredRecord \notin log
    /\ pc = "parsed" =>
          (SiteIgnoredRecord \in log <=> (urlparse(input).netloc # "" /\ args.site_given))

C19_Witness ==
    /\ pc = "parsed"
    /\ urlparse(input).netloc = OTHER_SITE
    /\ args.site_given
    /\ args.site = OTHER_SITE
    /\ SiteIgnoredRecord \in log

\* The text has a File: or Image: prefix somewhere, in any case.
HasPrefix(s) == \E i \in 1..Len(s) : lower(s[i]) \in {"file:", "image:"}

\* The text ends in a dot and a non-empty run of word characters.
HasExtension(s) ==
    \E k \in 1..(Len(s) - 1) : s[k] = "." /\ \A j \in (k + 1)..Len(s) : s[j] \in WordTokens

\* A name: not empty before its extension, and without a path separator.
ValidName(r) ==
    /\ HasExtension(r)
    /\ \A j \in 1..Len(r) : r[j] # "/"
    /\ \E k \in 2..Len(r) : r[k] = "." /\ \A j \in (k + 1)..Len(r) : r[j] # "."

\* The text of r with every percent-escape decoded.
Decoded(r) ==
    Join([i \in 1..Len(r) |->
            IF r[i] = "%20" THEN " " ELSE IF r[i] = "%2F" THEN "/" ELSE r[i]])

\* C20: a string that starts with File: or Image:, in any case, followed by
\* a valid name with a non-empty extension resolves to a target whose name
\* is the part after the prefix, percent-escapes decoded; a string without
\* a recognised prefix or without a trailing extension fails with ParseError.
C20_PrefixAndExtension ==
    pc = "parsed" =>
        /\ (input # <<>> /\ lower(Head(input)) \in {"file:", "image:"} /\ ValidName(Tail(input)))
              => output.ok /\ output.file.name = Decoded(Tail(input))
        /\ (~HasPrefix(input) \/ ~HasExtension(input))
              => ~output.ok /\ output.file = NoFile

C20_Witness ==
    /\ pc = "parsed"
    /\ input = <<"image:", "%20", ".", "a">>
    /\ output.ok
    /\ output.file.name = " .a"

\* C21: every successfully resolved target has a non-empty name; its
\* destination is the --output path when one is given and the name otherwise;
\* for an input without a URL host the site is the --site option, which is
\* the default site when the option is not given.  File:Example.jpg with no
\* options resolves to (Example.jpg, Example.jpg, default site).
C21_ResolverDefaults ==
    (pc = "parsed" /\ output.ok) =>
        /\ output.file.name # ""
        /\ output.file.dest = IF args.output # "" THEN args.output ELSE output.file.name
        /\ urlparse(input).netloc = "" =>
              /\ output.file.site = args.site
              /\ ~args.site_given => output.file.site = DEFAULT_SITE
        /\ (input = ExampleFile /\ args.output = "" /\ ~args.site_given) =>
              output.file = [name |-> "Example.jpg", dest |-> "Example.jpg",
                             site |-> DEFAULT_SITE, imageinfo |-> FALSE]

C21_Witness ==
    /\ pc = "parsed"
    /\ input = <<"File:", "a", ".", "a">>
    /\ args.output = "out.jpg"
    /\ args.site_given
    /\ args.site = OTHER_SITE
    /\ output.ok
    /\ output.file = [name |-> "a.a", dest |-> "out.jpg", site |-> OTHER_SITE,
                      imageinfo |-> FALSE]

\* The step touches entry e only: the main thread stays where it is and every
\* other entry keeps its stage, outcome and result.
ItemOnly(e) ==
    /\ UNCHANGED <<pc, line, errors, exit_code, futures, fut>>
    /\ \A o \in Entries \ {e} :
          /\ stage'[o] = stage[o]
          /\ outcome'[o] = outcome[o]
          /\ result'[o] = result[o]

\* download(target[e], args) has returned.
Returned(e) == calls[e].download > 0 /\ stage[e] = "finished"

\* C22: with --dry-run set and metadata that has file info, download ends
\* with DryRun and returns 0; it issues no request for the file's bytes and
\* does not verify anything, the destination is never opened, and the call
\* leaves the filesystem as it was.
C22_DryRunTouchesNothing ==
    /\ [](\A e \in Entries :
            (args.dry_run /\ target[e].imageinfo /\ calls[e].download > 0) =>
                /\ Returned(e)
                /\ outcome[e] = "DryRun"
                /\ result[e] = 0
                /\ opened[e] = "no"
                /\ calls[e].get = 0
                /\ calls[e].verify = 0)
    /\ [][\A e \in Entries :
            (outcome[e] = "none" /\ outcome'[e] = "DryRun") => fs' = fs]_vars

C22_Witness ==
    \E e \in Entries :
        /\ args.dry_run
        /\ outcome[e] = "DryRun"
        /\ fs[target[e].dest] = "absent"
        /\ result[e] = 0

\* C23: when the metadata has no file info, download ends with NotFound and
\* returns exactly 1; it opens and writes nothing, issues no request for the
\* file's bytes, and its return touches nothing but its own entry, so that a
\* batch still returns with an outcome for every entry.
C23_NotFoundCountsOne ==
    /\ [](\A e \in Entries :
            (Prepared(e) /\ ~target[e].imageinfo /\ calls[e].download > 0) =>
                /\ Returned(e)
                /\ outcome[e] = "NotFound"
                /\ result[e] = 1
                /\ opened[e] = "no"
                /\ calls[e].get = 0
                /\ calls[e].verify = 0)
    /\ [](BatchReturned => \A e \in Entries : outcome[e] # "none")
    /\ [][\A e \in Entries :
            (outcome[e] = "none" /\ outcome'[e] = "NotFound") => (fs' = fs /\ ItemOnly(e))]_vars

C23_Witness ==
    /\ BatchReturned
    /\ Len(dl_dict) = 2
    /\ outcome[1] = "NotFound"
    /\ outcome[2] = "Success"
    /\ fs[target[1].dest] = "absent"
    /\ errors = 1

\* C24: an OSError while the destination is opened or written is a
\* WriteFailure of that item only: download returns exactly 1 without having
\* called verify_hash, and the return touches nothing but its own entry.
C24_WriteFailureItemOnly ==
    /\ [](\A e \in Entries :
            outcome[e] = "WriteFailure" =>
                /\ Returned(e)
                /\ result[e] = 1
                /\ calls[e].verify = 0
                /\ sha1[e] = "none")
    /\ [][\A e \in Entries :
            (outcome[e] = "none" /\ outcome'[e] = "WriteFailure") => ItemOnly(e)]_vars

C24_Witness ==
    /\ BatchReturned
    /\ Len(dl_dict) = 2
    /\ outcome[1] = "WriteFailure"
    /\ calls[1].get = 1
    /\ outcome[2] = "Success"
    /\ errors = 1

\* C25: once the write is complete and verify_hash has been called, the item
\* ends in Success, with 0 errors, exactly when the digest of the local file
\* equals the server's hash; another digest gives HashMismatch and an
\* OSError in verify_hash gives VerifyFailure, each with exactly 1 error and
\* each touching nothing but its own entry.
C25_SuccessIffHashesMatch ==
    /\ [](\A e \in Entries :
            /\ outcome[e] \in {"Success", "HashMismatch", "VerifyFailure"} =>
                  (Returned(e) /\ calls[e].verify = 1)
            /\ (calls[e].verify > 0 /\ stage[e] = "finished") =>
                  /\ outcome[e] = "Success" <=> sha1[e] = file_sha1
                  /\ outcome[e] = "HashMismatch" <=> sha1[e] \in Digests \ {file_sha1}
                  /\ outcome[e] = "VerifyFailure" <=> sha1[e] = "none"
                  /\ result[e] = IF outcome[e] = "Success" THEN 0 ELSE 1)
    /\ [][\A e \in Entries :
            (outcome[e] = "none" /\ outcome'[e] \in {"HashMismatch", "VerifyFailure"})
                => ItemOnly(e)]_vars

C25_Witness ==
    /\ BatchReturned
    /\ Len(dl_dict) = 2
    /\ outcome[1] = "HashMismatch"
    /\ sha1[1] = Sha1Empty
    /\ outcome[2] = "Success"
    /\ sha1[2] = file_sha1
    /\ errors = 1

\* The records that report a failure: warnings and errors.
FailureRecords == {r \in log : r.level \in {"WARNING", "ERROR"}}

\* The failure records that carry entry e's line number and raw target.
LineRecords(e) == {r \in FailureRecords : r.line_num = e /\ r.target = <<dl_dict[e]>>}

\* C26: in batch mode every entry that failed, whatever the kind of its
\* failure, has a failure record in the log that carries its line number and
\* its raw target string.
C26_FailureLoggedWithLine ==
    args.batch => \A e \in Entries : outcome[e] \in Failures => LineRecords(e) # {}

\* C26, amended: in batch mode a ParseFailure, a connection-class failure and
\* an AccessDenied are reported by a warning that carries the entry's line
\* number and raw target; an AlreadyExists is reported by a warning prefixed
\* with the destination, and a NotFound, WriteFailure, VerifyFailure or
\* HashMismatch by a record prefixed with the resolved file name, and for
\* these no failure record carries the line number.  The line number and raw
\* target of every entry are in the INFO record that announces it.
C26_FailureLoggedByKind ==
    args.batch => \A e \in Entries :
        /\ calls[e].prep > 0 =>
              LogRecord("INFO", "Processing", e, <<dl_dict[e]>>, "") \in log
        /\ outcome[e] = "ParseFailure" =>
              LogRecord("WARNING", "Could not parse", e, <<dl_dict[e]>>, "")
                  \in log
        /\ outcome[e] \in {"AccessDenied"} \cup ConnectErrors =>
              LogRecord("WARNING", "Unable to download",
                        e, <<dl_dict[e]>>, "") \in log
        /\ outcome[e] = "AlreadyExists" =>
              /\ LogRecord("WARNING", "File already exists",
                           0, <<>>, get_dest(dl_dict[e], args).file.dest) \in log
              /\ \A r \in log : r.line_num = e => r.level = "INFO"
        /\ outcome[e] \in TransferFailures =>
              /\ \E r \in log :
                    /\ r.level \in {"WARNING", "ERROR"}
                    /\ r.prefix = target[e].name
                    /\ r.line_num = 0
                    /\ r.target = <<>>
              /\ \A r \in log : r.line_num = e => r.level = "INFO"

C26_Witness ==
    /\ BatchReturned
    /\ Len(dl_dict) = 2
    /\ outcome[1] = "AlreadyExists"
    /\ outcome[2] = "ConnectionError"
    /\ LineRecords(1) = {}
    /\ LineRecords(2) # {}

\* Entry e's prepare step is over: it failed, or its download was submitted.
PrepOver(e) == stage[e] \notin {"pending", "resolved", "connected"}

\* C27: batch entries are dispatched in line order: when the prepare step of
\* an entry starts, that of every entry with a smaller line number is over
\* (failed, or submitted to the pool), and the pool receives the downloads in
\* ascending line order; nothing is said about the order in which they end.
C27_DispatchInLineOrder ==
    args.batch =>
        /\ \A i, j \in Entries : (i < j /\ calls[j].prep > 0) => PrepOver(i)
        /\ \A a, b \in 1..Len(futures) : a < b => futures[a] < futures[b]
        /\ \A e \in Entries :
              (Prepared(e) /\ PrepOver(e)) <=> (\E a \in 1..Len(futures) : futures[a] = e)

C27_Witness ==
    /\ args.batch
    /\ futures = <<1, 2>>
    /\ stage[1] = "transferring"
    /\ stage[2] = "finished"
    /\ outcome[2] = "Success"

\* C29: in single-item mode exactly one target is prepared, once; download
\* is called exactly once when prep_download returned a File, and never when
\* it failed with ParseFailure, AlreadyExists or an error of the connection.
C29_SingleItemOnce ==
    ~args.batch =>
        /\ Entries = {1}
        /\ calls[1].prep <= 1
        /\ calls[1].download <= 1
        /\ calls[1].download = 1 => Prepared(1)
        /\ outcome[1] \in PrepFailures => (~Prepared(1) /\ calls[1].download = 0)
        /\ Prepared(1) => outcome[1] \notin PrepFailures
        /\ pc = "done" =>
              /\ calls[1].prep = 1
              /\ calls[1].download = IF Prepared(1) THEN 1 ELSE 0
              /\ Prepared(1) <=> outcome[1] \notin PrepFailures

C29_Witness ==
    /\ ~args.batch
    /\ pc = "done"
    /\ Prepared(1)
    /\ calls[1].prep = 1
    /\ calls[1].download = 1
    /\ outcome[1] = "HashMismatch"

\* C28: verify_hash is idempotent and read-only: the file keeps its content,
\* every call returns the same digest, which is sha1 of the content, and that
\* is 8843d7f92416211de9ebb963ff4ce28125932878 for "foobar"; while a call
\* reads, the hasher has been fed exactly the bytes before the offset, in
\* order, and at the return it has been fed the whole file, whatever the
\* length of the file is relative to the block size.
C28_VerifyHashIdempotent ==
    /\ [][input' = input]_vars
    /\ [](pc = "hash_read" =>
            /\ hashing.offset <= Len(input)
            /\ hashing.hasher = SubSeq(input, 1, hashing.offset))
    /\ [](\A k \in 1..Len(output) :
            /\ output[k] = hexdigest(input)
            /\ output[k] = output[1]
            /\ input = Foobar => output[k] = "8843d7f92416211de9ebb963ff4ce28125932878")
    /\ [](pc \in {"hash_call", "hash_done"} /\ output # <<>> => hashing.hasher = input)

C28_Witness ==
    /\ pc = "hash_done"
    /\ input = Foobar
    /\ hashing.offset = Len(Foobar)
    /\ output = <<Sha1Foobar, Sha1Foobar>>

\* Both credentials are given.
HasCredentials == args.username # "" /\ args.password # ""

\* C30: connect_to_site attempts the login exactly when both the username
\* and the password are non-empty, once and before the Site is returned;
\* when Site(...) or the login fails, the error is raised to the caller and
\* no Site is returned.
C30_LoginIffCredentials ==
    /\ output.login <= 1
    /\ output.login = 1 => (HasCredentials /\ output.site)
    /\ pc = "connect_return" => output.login = IF HasCredentials THEN 1 ELSE 0
    /\ output.returned =>
          /\ output.site
          /\ output.login = IF HasCredentials THEN 1 ELSE 0
          /\ output.raised = "none"
    /\ AuthenticateRecord \in log <=> output.login = 1
    /\ output.raised # "none" =>
          /\ ~output.returned
          /\ pc = "connect_done"
          /\ output.raised \in ConnectErrors
          /\ ClientErrorLog(output.raised) \subseteq log
    /\ pc = "connect_done" => (output.returned <=> output.raised = "none")

C30_Witness ==
    /\ pc = "connect_done"
    /\ args.username = "alice"
    /\ args.password = "secret"
    /\ output.login = 1
    /\ output.raised = "LoginError"
    /\ ~output.returned

\* The stage that follows st when the step at st succeeds.
NextStage(st) ==
    CASE st = "pending" -> "resolved"
      [] st = "resolved" -> "connected"
      [] st = "connected" -> "queued"
      [] st = "queued" -> "transferring"
      [] st = "transferring" -> "verifying"
      [] OTHER -> "finished"

\* C31: every item passes its stages only in the order resolved, connected,
\* metadata fetched (queued), transferring, verifying: a step moves it to the
\* next stage or ends it, and it ends with exactly one outcome, which never
\* changes.  Its destination is opened only after the metadata was fetched
\* and has file info, and verify_hash is called only after the bytes were
\* requested and written without a WriteFailure.
C31_StageOrder ==
    /\ [][\A e \in Entries :
            /\ stage'[e] # stage[e] => stage'[e] \in {NextStage(stage[e]), "finished"}
            /\ outcome[e] # "none" => outcome'[e] = outcome[e]
            /\ (stage[e] # "finished" /\ stage'[e] = "finished") =>
                  (outcome[e] = "none" /\ outcome'[e] # "none")]_vars
    /\ [](\A e \in Entries :
            /\ stage[e] = "finished" <=> outcome[e] # "none"
            /\ opened[e] # "no" =>
                  (calls[e].query = 1 /\ target[e].imageinfo
                   /\ stage[e] \in {"transferring", "verifying", "finished"})
            /\ calls[e].get > 0 => opened[e] # "no"
            /\ (stage[e] = "verifying" \/ calls[e].verify > 0) =>
                  (calls[e].get = 1 /\ outcome[e] # "WriteFailure")
            /\ stage[e] \in {"connected", "queued"} => calls[e].connect = 1
            /\ stage[e] \in {"queued", "transferring", "verifying"} => calls[e].query = 1)

C31_Witness ==
    \E e \in Entries :
        /\ stage[e] = "verifying"
        /\ calls[e] = [prep |-> 1, connect |-> 1, query |-> 1, download |-> 1,
                       get |-> 1, verify |-> 0]
        /\ opened[e] = "absent"
        /\ outcome[e] = "none"

\* C32: the batch summary is logged exactly when the error count is greater
\* than 0; it states the count, with "problem" for a count of 1 and
\* "problems" for every count from 2 on.
C32_SummaryPlural ==
    /\ pc = "summary" => log = {}
    /\ pc = "summary_done" =>
          /\ log # {} <=> input > 0
          /\ input = 1 =>
                log = {LogRecord("WARNING", "1 problem encountered during batch processing",
                                 0, <<>>, "")}
          /\ input >= 2 =>
                log = {LogRecord("WARNING",
                                 ToString(input) \o " problems encountered during batch processing",
                                 0, <<>>, "")}

C32_Witness ==
    /\ pc = "summary_done"
    /\ input = 4
    /\ log = {LogRecord("WARNING", "4 problems encountered during batch processing", 0, <<>>, "")}

C34_OwnTargetSubmitted ==
    /\ \A a \in 1..Len(futures) :
          LET e == futures[a]
              d == get_dest(dl_dict[e], args)
          IN  /\ d.ok
              /\ [target[e] EXCEPT !.imageinfo = FALSE] = d.file
    /\ ~(pc = "main_submit" /\ outcome[line] \in PrepFailures)

Corrupting == {"WriteFailure", "VerifyFailure", "HashMismatch"}

\* The entries whose download opened the destination p and then failed.
FailedAt(p) == {j \in Entries : opened[j] # "no" /\ outcome[j] \in Corrupting /\ target[j].dest = p}

\* C35: once a download has opened its destination the file stays on disk
\* whatever the outcome (nothing removes a file, also not after a
\* WriteFailure, a VerifyFailure or a HashMismatch), and a later prepare of a
\* target with that destination, without force, ends in AlreadyExists with no
\* connection, no query and no download, and leaves the file as it is.
C35_PartialFileKept ==
    /\ [](\A e \in Entries :
            /\ opened[e] # "no" => fs[target[e].dest] = "file"
            /\ outcome[e] = "AlreadyExists" =>
                  (calls[e].connect = 0 /\ calls[e].query = 0 /\ calls[e].download = 0
                   /\ calls[e].get = 0))
    /\ [][/\ \A p \in DOMAIN fs : fs[p] = "file" => fs'[p] = "file"
          /\ (pc = "get_dest" /\ calls'[line].prep # calls[line].prep) =>
                LET d == get_dest(dl_dict[line], args)
                IN  (d.ok /\ ~args.force /\ FailedAt(d.file.dest) # {}) =>
                       (outcome'[line] = "AlreadyExists" /\ fs' = fs /\ sites' = sites)]_vars

C35_Witness ==
    /\ ~args.force
    /\ \E j, e \in Entries :
          /\ j # e
          /\ opened[j] = "absent"
          /\ outcome[j] = "HashMismatch"
          /\ fs[target[j].dest] = "file"
          /\ get_dest(dl_dict[e], args).file.dest = target[j].dest
          /\ outcome[e] = "AlreadyExists"

\* C36: a finished target has the outcome DryRun, counted as no error, if
\* and only if the dry-run flag is set, the prepare step returned a File and
\* its metadata say the remote file exists; nothing is written then.  The
\* flag changes no earlier check: a prepare step that finds the destination
\* on disk without force ends in AlreadyExists, and a prepared target whose
\* remote file is missing ends in NotFound, each counted as one error, also
\* with dry-run set.
C36_DryRunOutcome ==
    /\ [](\A e \in Entries :
            /\ stage[e] = "finished" =>
                  (outcome[e] = "DryRun" <=>
                      (args.dry_run /\ Prepared(e) /\ target[e].imageinfo))
            /\ outcome[e] = "DryRun" =>
                  (result[e] = 0 /\ opened[e] = "no" /\ calls[e].get = 0)
            /\ (stage[e] = "finished" /\ Prepared(e) /\ ~target[e].imageinfo) =>
                  (outcome[e] = "NotFound" /\ result[e] = 1)
            /\ outcome[e] = "AlreadyExists" =>
                  (~Prepared(e) /\ IF args.batch THEN errors >= 1 ELSE exit_code = 1))
    /\ [][(pc = "get_dest" /\ calls'[line].prep # calls[line].prep) =>
             LET d == get_dest(dl_dict[line], args)
             IN  (d.ok /\ ~args.force /\ is_file(d.file.dest)) =>
                    outcome'[line] = "AlreadyExists"]_vars

C36_Witness ==
    /\ args.dry_run
    /\ args.batch
    /\ pc = "done"
    /\ \E e, j \in Entries :
          /\ outcome[e] = "DryRun"
          /\ outcome[j] \in {"AlreadyExists", "NotFound"}
          /\ errors = 1
          /\ exit_code = 1

\* The part of the raw target dl the file regex takes as the name (group 2),
\* before it is decoded.
MatchedName(dl) ==
    LET url == urlparse(dl)
    IN  valid_file(IF url.netloc # "" THEN url.path ELSE dl).group2

\* C37: for every input get_dest accepts, the name of the returned File,
\* which is the decoded text of the matched part, contains no "/", and
\* without --output the destination is that bare name; also for inputs with
\* percent-escapes.
C37_NameWithoutSeparator ==
    (pc = "parsed" /\ output.ok) =>
        LET g == MatchedName(input)
        IN  /\ output.file.name = unquote(g)
            /\ \A i \in 1..Len(g) : unquote(<<g[i]>>) # "/"
            /\ args.output = "" => output.file.dest = output.file.name

\* The entries whose prepare step is under way.
Preparing == {e \in Entries : stage[e] \in {"resolved", "connected"}}

\* C38: in batch mode the prepare steps (get_dest with the existence check,
\* connect_to_site with the login, query_api) are steps of the dispatching
\* loop, for its current line, in line order and one entry at a time; the
\* download steps are steps of pool workers on submitted entries and do not
\* move the loop.  So at most one connect or query is under way whatever
\* args.threads is.
C38_PrepareOnDispatcher ==
    /\ [](args.batch =>
            /\ Cardinality(Preparing) <= 1
            /\ \A e \in Preparing : e = line /\ pc \in {"connect", "query"}
            /\ \A e \in Entries : calls[e].prep > 0 =>
                  /\ e <= line
                  /\ \A j \in 1..(e - 1) : calls[j].prep = 1 /\ stage[j] \notin {"pending", "resolved", "connected"})
    /\ [][args.batch =>
             \A e \in Entries :
                /\ (\/ calls'[e].prep # calls[e].prep
                    \/ calls'[e].connect # calls[e].connect
                    \/ calls'[e].query # calls[e].query) =>
                       (e = line /\ pc \in {"get_dest", "connect", "query"})
                /\ (\/ calls'[e].download # calls[e].download
                    \/ calls'[e].get # calls[e].get
                    \/ calls'[e].verify # calls[e].verify) =>
                       /\ \E a \in 1..Len(futures) : futures[a] = e
                       /\ pc' = pc /\ line' = line]_vars

C38_Witness ==
    /\ args.batch
    /\ \E j, k \in Entries :
          /\ j < k
          /\ stage[j] = "transferring"
          /\ calls[k].prep = 1
          /\ stage[k] = "connected"

=============================================================================
